---- MODULE Spec2Model ----
(***************************************************************************)
(* The adaptive retry controllers of the Delta scraping services:          *)
(*   DeltaChallengeHandler  (src/delta-curl-cffi-service.py)               *)
(*   EnhancedDeltaHandler   (src/delta-curl-cffi-enhanced.py)              *)
(*   UltimateDeltaHandler   (src/delta-curl-cffi-ultimate.py)              *)
(*   PerfectDeltaHandler    (src/delta-curl-cffi-perfect.py)               *)
(* One process runs one handler (the module-level singleton); `variant`    *)
(* says which.  make_delta_request is modelled step by step: the for       *)
(* statement, the strategy selection, the upstream call, the branch on     *)
(* the response, the except clause and the sleep before `continue`.        *)
(* Enhanced, Ultimate and Perfect share the text of the retry loop; the    *)
(* shared steps are written once and the line numbers of the Enhanced      *)
(* file are the ones quoted in the comments.                               *)
(***************************************************************************)
EXTENDS Integers, Sequences, FiniteSets, TLC

(***************************************************************************)
(* Bounds of the model.                                                    *)
(***************************************************************************)
\* largest max_retries argument a caller passes
MaxRetries == 3
\* upstream calls issued over the life of the process
MaxTotalAttempts == 6
\* random.choice in PerfectDeltaHandler draws among the first entries only
MaxRandomPick == 2
\* make_delta_request calls over the life of the process
MaxRequests == 3
\* upstream calls issued over the life of a PerfectDeltaHandler process
MaxPerfectAttempts == 3
\* attempts followed in the view of the statistics alone
MaxLoopAttempts == 8
\* the delay computations: largest attempt number, largest
\* consecutive_failures, largest attempts count of the used strategy
MaxDelayAttempt == 7
MaxDelayFailures == 9
MaxDelayStat == 3
\* values random.uniform takes besides the lower end of its range
RandomSteps == 2
\* the clock view ends at this time (milliseconds)
MaxClock == 20000
\* largest max_retries of a call made by a concurrent request thread
MaxConcRetries == 2
\* attempts of all request threads together, and calls they start
MaxConcAttempts == 2

\* the concurrent clock view: it ends at this time (milliseconds), and the
\* calls started in it may make this many attempts together
MaxThrottleClock == 12000
MaxThrottleAttempts == 3

\* attempts followed on each of two controllers side by side
MaxTwinAttempts == 4

\* upstream calls issued by the POST /delta requests served
MaxEndpointAttempts == 3

\* calls and upstream attempts of the progress specification
MaxLiveCalls == 2
MaxLiveAttempts == 3

\* attempts of one strategy and failures in a row of the selection on its own
MaxPickStat == 3
MaxPickFailures == 3

\* attempts of the handler whose upstream fails every time
MaxExploreAttempts == 12

\* tokens the token endpoint returns, attempts of one page worker
MaxTokens == 3
MaxFetchAttempts == 2

\* days after today that the timestamp of get_flights is followed to
MaxAheadDays == 30

\* availability requests of one run of the CX scraper (24 hard-coded ones and
\* one per further route in the source)
MaxQueries == 3

\* threads of the scraper's pool (max_workers, 20 in the source)
MaxPoolWorkers == 2

\* lines on the standard input of the persistent browser
MaxLines == 3

(***************************************************************************)
(* Strategy catalogs.                                                      *)
(***************************************************************************)
\* enhanced.py:21-27
EFFECTIVE_STRATEGIES ==
    <<"chrome131", "chrome136", "safari184", "safari260", "firefox135">>

\* enhanced.py:30-34
FALLBACK_STRATEGIES == <<"chrome133a", "edge99", "edge101">>

\* enhanced.py:37
ALL_STRATEGIES == EFFECTIVE_STRATEGIES \o FALLBACK_STRATEGIES

\* ultimate.py:21-26
ULTIMATE_STRATEGIES == <<"chrome131", "chrome136", "safari184", "firefox135">>

\* ultimate.py:29-34
BACKUP_STRATEGIES == <<"safari260", "chrome133a", "edge99", "edge101">>

\* ultimate.py:36
ULTIMATE_ALL_STRATEGIES == ULTIMATE_STRATEGIES \o BACKUP_STRATEGIES

\* perfect.py:21-44
ALL_OPEN_SOURCE_STRATEGIES ==
    <<"chrome99", "chrome100", "chrome101", "chrome104", "chrome107",
      "chrome110", "chrome116", "chrome119", "chrome120", "chrome123",
      "chrome124", "chrome131", "chrome133a", "chrome136",
      "chrome99_android", "chrome131_android",
      "safari153", "safari155", "safari170", "safari180", "safari184",
      "safari260",
      "safari172_ios", "safari180_ios", "safari184_ios", "safari260_ios",
      "firefox133", "firefox135",
      "tor145",
      "edge99", "edge101">>

\* service.py:21-30
BROWSER_STRATEGIES ==
    <<"chrome131", "chrome133a", "chrome136", "safari184", "safari260",
      "firefox135", "edge99", "edge101">>

Variants == {"service", "enhanced", "ultimate", "perfect"}

\* the three handlers that keep per-strategy statistics
StatVariants == {"enhanced", "ultimate", "perfect"}

\* the catalog a handler's __init__ builds its dictionaries from
Catalog(v) ==
    CASE v = "enhanced" -> ALL_STRATEGIES
      [] v = "ultimate" -> ULTIMATE_ALL_STRATEGIES
      [] v = "perfect"  -> ALL_OPEN_SOURCE_STRATEGIES
      [] OTHER          -> BROWSER_STRATEGIES

Range(seq) == {seq[i] : i \in 1..Len(seq)}

\* position of a key in a dict built in catalog order
IndexOf(seq, s) == CHOOSE i \in 1..Len(seq) : seq[i] = s

\* the value of a local that has not been assigned yet
Unbound == "<unbound>"

\* the value of an absent string field (no exception, no outcome, no error)
None == "<none>"

\* the status_code of a dictionary that has no status_code key
\* (enhanced.py:793-798, 800-805) and of a response not yet received
NoStatus == 0

VARIABLES
    variant,                 \* which handler this process runs
    strategy_success_rates,  \* per strategy: number of successes
    strategy_attempts,       \* per strategy: number of recorded attempts
    request_count,
    success_count,
    challenge_count,
    access_denied_count,
    timeout_count,
    consecutive_failures,
    current_strategy_index,
    current_strategy,        \* DeltaChallengeHandler only (0-based)
    pc,                      \* position inside make_delta_request
    max_retries,             \* argument of the running call
    attempt,                 \* loop variable
    strategy,                \* local
    response,                \* local: the upstream response
    exc,                     \* local: the exception being handled
    outcome,                 \* the branch the running attempt took
    result,                  \* the returned dictionary
    calls_made,              \* upstream calls issued by the running call
    total_calls,             \* upstream calls issued by the process
    snap,                    \* statistics when the running attempt began
    th,                      \* the request threads of the threaded server
    delay,                   \* the value a delay computation returned
    rnd,                     \* what random.uniform returned in it
    now,                     \* time.time()
    last_request_time,
    recorded,                \* the statistics updates made so far
    serialized,              \* whether update_strategy_stats runs as one step
    twin,                    \* a second controller
    reply,                   \* what the last endpoint call answered
    airport_api,             \* FlightRadar24AirportAPI and its page workers
    flights_api,             \* FlightRadar24API.get_flights
    cx_scraper,              \* CXAvailabilityScraper.run_scraper
    persistent_browser       \* run_persistent_browser of delta_browser_fetch

vars == <<variant, strategy_success_rates, strategy_attempts, request_count,
          success_count, challenge_count, access_denied_count, timeout_count,
          consecutive_failures, current_strategy_index, current_strategy,
          pc, max_retries, attempt, strategy, response, exc, outcome, result,
          calls_made, total_calls, snap, th, delay, rnd, now,
          last_request_time, recorded, serialized, twin, reply,
          airport_api, flights_api, cx_scraper, persistent_browser>>

\* the other programs of the repository
scripts == <<airport_api, flights_api, cx_scraper, persistent_browser>>

\* a program that is not the one a view is about
NotRunning == [pc |-> "absent"]

ScriptsAbsent ==
    /\ airport_api = NotRunning
    /\ flights_api = NotRunning
    /\ cx_scraper = NotRunning
    /\ persistent_browser = NotRunning

\* what the step-by-step view of one sequential caller leaves aside: the
\* other request threads, the clock, the account of the updates made by
\* concurrent threads, the second controller and the endpoints
elsewhere == <<th, delay, rnd, now, last_request_time, recorded, serialized,
               scripts,
               twin, reply>>

stats == <<strategy_success_rates, strategy_attempts, consecutive_failures>>

counters == <<request_count, success_count, challenge_count,
              access_denied_count, timeout_count>>

(***************************************************************************)
(* Upstream responses.  A response is a status code and a body; the body   *)
(* is described by what response.json(), the 'body' member and             *)
(* json.loads of that member yield.                                        *)
(*   json  : "invalid" (json() raises), "list", "dict"                     *)
(*   inner : the 'body' member: "missing", "invalid" (json.loads raises),  *)
(*           "list" (no .get attribute), "dict"                            *)
(*   flag  : the value of 'cpr_chlge' in the inner dict                    *)
(***************************************************************************)
Body(j, i, f) == [json |-> j, inner |-> i, flag |-> f]

FlagValues == {"absent", "str_true", "bool_true", "str_false", "bool_false"}

ChallengeBodies ==
    {Body("invalid", "missing", "absent"), Body("list", "missing", "absent"),
     Body("dict", "missing", "absent"), Body("dict", "invalid", "absent"),
     Body("dict", "list", "absent")}
    \cup {Body("dict", "dict", f) : f \in FlagValues}

Responses ==
    {[status_code |-> 200, body |-> b] :
        b \in {Body("invalid", "missing", "absent"),
               Body("dict", "missing", "absent")}}
    \cup {[status_code |-> 429, body |-> b] : b \in ChallengeBodies}
    \cup {[status_code |-> c, body |-> Body("invalid", "missing", "absent")] :
            c \in {444, 500}}
    \cup {[status_code |-> 500, body |-> Body("dict", "dict", "str_true")]}

\* the local `response` before requests.post has returned
NoResponse == [status_code |-> NoStatus, body |-> Body("invalid", "missing", "absent")]

\* str(e) of what requests.post raises
TransportErrors == {"timeout", "connection refused"}

JsonError == "json decode error"

(***************************************************************************)
(* Response classification.                                                *)
(***************************************************************************)
\* a slip: the status alone decides, the inner flag is not read
is_challenge_response_status_only(resp) == resp.status_code = 429

\* enhanced.py:170-183 (the same text at service.py:102-115,
\* ultimate.py:178-191, perfect.py:189-202)
is_challenge_response(resp) ==
    IF resp.status_code # 429 THEN FALSE
    ELSE IF resp.body.json = "invalid" THEN FALSE          \* json() raises
    ELSE IF resp.body.json = "dict" /\ resp.body.inner # "missing" THEN
        IF resp.body.inner = "invalid" THEN FALSE          \* json.loads raises
        ELSE IF resp.body.inner # "dict" THEN FALSE        \* .get raises
        ELSE resp.body.flag = "str_true"                   \* == 'true'
    ELSE FALSE

\* enhanced.py:185-187
is_access_denied(resp) == resp.status_code = 444

\* "timeout" in str(e).lower()   (ultimate.py:795, perfect.py:806)
IsTimeout(e) == e = "timeout"

(***************************************************************************)
(* Per-strategy statistics.                                                *)
(***************************************************************************)
\* a slip: a success does not reset consecutive_failures
update_strategy_stats_no_reset(att, succ, cf, s, success) ==
    [attempts  |-> [att EXCEPT ![s] = @ + 1],
     successes |-> IF success THEN [succ EXCEPT ![s] = @ + 1] ELSE succ,
     consecutive_failures |-> IF success THEN cf ELSE cf + 1]

\* a slip: every recorded outcome counts as a success of the strategy
update_strategy_stats_always_success(att, succ, cf, s, success) ==
    [attempts  |-> [att EXCEPT ![s] = @ + 1],
     successes |-> [succ EXCEPT ![s] = @ + 1],
     consecutive_failures |-> IF success THEN 0 ELSE cf + 1]

\* a slip: the attempt is counted under a key of its own
update_strategy_stats_new_key(att, succ, cf, s, success) ==
    [attempts  |-> [x \in DOMAIN att \cup {"last"} |->
                       IF x = "last" THEN 1 ELSE att[x]],
     successes |-> IF success THEN [succ EXCEPT ![s] = @ + 1] ELSE succ,
     consecutive_failures |-> IF success THEN 0 ELSE cf + 1]

\* a slip: `=+ 1` in place of `+= 1` on strategy_attempts
update_strategy_stats_assign(att, succ, cf, s, success) ==
    [attempts  |-> [att EXCEPT ![s] = 1],
     successes |-> IF success THEN [succ EXCEPT ![s] = @ + 1] ELSE succ,
     consecutive_failures |-> IF success THEN 0 ELSE cf + 1]

\* enhanced.py:189-196 (the same text at ultimate.py:197-204,
\* perfect.py:208-215): the three fields after the call
update_strategy_stats(att, succ, cf, s, success) ==
    [attempts  |-> [att EXCEPT ![s] = @ + 1],
     successes |-> IF success THEN [succ EXCEPT ![s] = @ + 1] ELSE succ,
     consecutive_failures |-> IF success THEN 0 ELSE cf + 1]

\* any(self.strategy_attempts.values())
AnyAttempts(att) == \E s \in DOMAIN att : att[s] # 0

\* success_rates[strategy] as the fraction RateNum / RateDen
\* (0.0 when the strategy has no attempts)
RateNum(att, succ, s) == IF att[s] > 0 THEN succ[s] ELSE 0

RateDen(att, succ, s) == IF att[s] > 0 THEN att[s] ELSE 1

RateLess(att, succ, a, b) ==
    RateNum(att, succ, a) * RateDen(att, succ, b)
        < RateNum(att, succ, b) * RateDen(att, succ, a)

\* a slip: among equal rates the strategy with fewer attempts ranks higher
KeyLessFewerAttempts(att, succ, a, b) ==
    \/ RateLess(att, succ, a, b)
    \/ /\ ~RateLess(att, succ, b, a)
       /\ att[a] > att[b]

\* the sort key (success_rate, attempts) of enhanced.py:87: key(a) < key(b)
KeyLess(att, succ, a, b) ==
    \/ RateLess(att, succ, a, b)
    \/ /\ ~RateLess(att, succ, b, a)
       /\ att[a] < att[b]

\* one insertion of the stable descending sort: x goes behind every element
\* whose key is not smaller than its own
InsertSorted(att, succ, lst, x) ==
    LET pos == Cardinality({i \in 1..Len(lst) : ~KeyLess(att, succ, lst[i], x)})
    IN  SubSeq(lst, 1, pos) \o <<x>> \o SubSeq(lst, pos + 1, Len(lst))

RECURSIVE SortedPrefix(_, _, _, _)
\* sorted(items, key=..., reverse=True) of the first n catalog entries;
\* Python's sort is stable, also with reverse=True
SortedPrefix(att, succ, seq, n) ==
    IF n = 0 THEN <<>>
    ELSE InsertSorted(att, succ, SortedPrefix(att, succ, seq, n - 1), seq[n])

\* enhanced.py:85-89
sorted_strategies(att, succ) ==
    SortedPrefix(att, succ, ALL_STRATEGIES, Len(ALL_STRATEGIES))

RECURSIVE MinScan(_, _, _)
\* min(self.strategy_attempts.items(), key=lambda x: x[1]) over the first n
\* entries: Python keeps the first minimal element
MinScan(att, seq, n) ==
    IF n = 1 THEN seq[1]
    ELSE LET best == MinScan(att, seq, n - 1)
         IN  IF att[seq[n]] < att[best] THEN seq[n] ELSE best

RECURSIVE MaxScan(_, _, _, _)
\* max(items, key=lambda x: (x[1], attempts)) over the first n entries:
\* Python keeps the first maximal element
MaxScan(att, succ, seq, n) ==
    IF n = 1 THEN seq[1]
    ELSE LET best == MaxScan(att, succ, seq, n - 1)
         IN  IF KeyLess(att, succ, best, seq[n]) THEN seq[n] ELSE best

\* enhanced.py:92: if self.consecutive_failures > 3
ExploreThreshold == 3

\* ultimate.py:93: if self.consecutive_failures > 2
UltimateExploreThreshold == 2

\* a slip: the exploration branch is missing, the top scorer is always taken
get_best_strategy_no_explore(att, succ, cf, idx) ==
    IF ~AnyAttempts(att)
    THEN EFFECTIVE_STRATEGIES[(idx % Len(EFFECTIVE_STRATEGIES)) + 1]
    ELSE Head(sorted_strategies(att, succ))

\* a slip: with no attempt on record the tier is indexed from its end
get_best_strategy_from_end(att, succ, cf, idx) ==
    IF ~AnyAttempts(att)
    THEN EFFECTIVE_STRATEGIES[Len(EFFECTIVE_STRATEGIES)
                                 - (idx % Len(EFFECTIVE_STRATEGIES))]
    ELSE IF cf > ExploreThreshold
         THEN MinScan(att, ALL_STRATEGIES, Len(ALL_STRATEGIES))
         ELSE Head(sorted_strategies(att, succ))

\* a slip: the first request draws its strategy, random.choice(...)
get_best_strategy_drawn(att, succ, cf, idx) ==
    IF ~AnyAttempts(att)
    THEN EFFECTIVE_STRATEGIES[(rnd[1] % Len(EFFECTIVE_STRATEGIES)) + 1]
    ELSE IF cf > ExploreThreshold
         THEN MinScan(att, ALL_STRATEGIES, Len(ALL_STRATEGIES))
         ELSE Head(sorted_strategies(att, succ))

\* a slip: the exploration starts one failure early
get_best_strategy_explores_early(att, succ, cf, idx) ==
    IF ~AnyAttempts(att)
    THEN EFFECTIVE_STRATEGIES[(idx % Len(EFFECTIVE_STRATEGIES)) + 1]
    ELSE IF cf >= ExploreThreshold
         THEN MinScan(att, ALL_STRATEGIES, Len(ALL_STRATEGIES))
         ELSE Head(sorted_strategies(att, succ))

\* enhanced.py:70-97
get_best_strategy(att, succ, cf, idx) ==
    IF ~AnyAttempts(att)
    THEN EFFECTIVE_STRATEGIES[(idx % Len(EFFECTIVE_STRATEGIES)) + 1]
    ELSE IF cf > ExploreThreshold
         THEN MinScan(att, ALL_STRATEGIES, Len(ALL_STRATEGIES))
         ELSE Head(sorted_strategies(att, succ))

\* a slip: the test of consecutive_failures comes before the test of the
\* best ultimate strategy
get_ultimate_strategy_explores_first(att, succ, cf, idx) ==
    IF ~AnyAttempts(att)
    THEN ULTIMATE_STRATEGIES[(idx % Len(ULTIMATE_STRATEGIES)) + 1]
    ELSE IF cf > UltimateExploreThreshold
         THEN MinScan(att, ULTIMATE_ALL_STRATEGIES,
                      Len(ULTIMATE_ALL_STRATEGIES))
         ELSE LET best_ultimate ==
                      MaxScan(att, succ, ULTIMATE_STRATEGIES,
                              Len(ULTIMATE_STRATEGIES))
              IN  IF 2 * RateNum(att, succ, best_ultimate)
                         > RateDen(att, succ, best_ultimate)
                  THEN best_ultimate
                  ELSE MaxScan(att, succ, ULTIMATE_ALL_STRATEGIES,
                               Len(ULTIMATE_ALL_STRATEGIES))

\* ultimate.py:67-99
get_ultimate_strategy(att, succ, cf, idx) ==
    IF ~AnyAttempts(att)
    THEN ULTIMATE_STRATEGIES[(idx % Len(ULTIMATE_STRATEGIES)) + 1]
    ELSE LET best_ultimate ==
                 MaxScan(att, succ, ULTIMATE_STRATEGIES, Len(ULTIMATE_STRATEGIES))
         IN  IF 2 * RateNum(att, succ, best_ultimate)
                    > RateDen(att, succ, best_ultimate)
             THEN best_ultimate
             ELSE IF cf > UltimateExploreThreshold
                  THEN MinScan(att, ULTIMATE_ALL_STRATEGIES,
                               Len(ULTIMATE_ALL_STRATEGIES))
                  ELSE MaxScan(att, succ, ULTIMATE_ALL_STRATEGIES,
                               Len(ULTIMATE_ALL_STRATEGIES))

\* perfect.py:94-96: random.choice(ALL_OPEN_SOURCE_STRATEGIES), one of
\* the outcomes the draw can have
get_random_strategy ==
    {ALL_OPEN_SOURCE_STRATEGIES[i] :
        i \in 1..(IF MaxRandomPick < Len(ALL_OPEN_SOURCE_STRATEGIES)
                  THEN MaxRandomPick ELSE Len(ALL_OPEN_SOURCE_STRATEGIES))}

\* the strategies the selection of the running handler can return
SelectStrategy ==
    CASE variant = "enhanced" ->
            {get_best_strategy(strategy_attempts, strategy_success_rates,
                               consecutive_failures, current_strategy_index)}
      [] variant = "ultimate" ->
            {get_ultimate_strategy(strategy_attempts, strategy_success_rates,
                                   consecutive_failures, current_strategy_index)}
      [] OTHER -> get_random_strategy

(***************************************************************************)
(* Delay computation.  Durations are in milliseconds.  random.uniform(0, w)*)
(* returns one of RandomSteps + 1 evenly spaced values of [0, w], the two  *)
(* ends included; a success rate enters as the fraction successes /        *)
(* attempts, and each term of a delay is rounded down to the millisecond.  *)
(***************************************************************************)
RandomLevels == 0..RandomSteps

\* random.uniform(0, w) at level r
Uniform(w, r) == (w * r) \div RandomSteps

Min(a, b) == IF a < b THEN a ELSE b

RECURSIVE Pow(_, _)
Pow(b, n) == IF n = 0 THEN 1 ELSE b * Pow(b, n - 1)

\* a slip: the delay grows with the success rate
strategy_delay_direct(att, succ, s, w) ==
    IF att[s] > 0 THEN (w * succ[s]) \div att[s] ELSE 0

\* enhanced.py:153-159 (ultimate.py:158-164):
\* (1.0 - strategy_success_rate) * w, the rate 0.0 without attempts
strategy_delay(att, succ, s, w) ==
    IF att[s] > 0 THEN (w * (att[s] - succ[s])) \div att[s] ELSE w

\* enhanced.py:162: min(2.0 * (attempt - 1), 10.0)
attempt_delay(a) == Min(2000 * (a - 1), 10000)

\* enhanced.py:165: min(self.consecutive_failures * 2.0, 15.0)
failure_delay(cf) == Min(cf * 2000, 15000)

\* enhanced.py:168: the cap
EnhancedCap == 30000

\* a slip: the sum is returned as it is
calculate_delay_uncapped(att, succ, cf, a, s, r) ==
    3000 + Uniform(2000, r[1]) + strategy_delay(att, succ, s, 5000)
        + attempt_delay(a) + failure_delay(cf)

\* enhanced.py:148-168
calculate_delay(att, succ, cf, a, s, r) ==
    LET base_delay == 3000 + Uniform(2000, r[1])
        total_delay == base_delay + strategy_delay(att, succ, s, 5000)
                           + attempt_delay(a) + failure_delay(cf)
    IN  Min(total_delay, EnhancedCap)

\* ultimate.py:167: min(3.0 * (1.5 ** (attempt - 1)), 20.0)
ultimate_attempt_delay(a) ==
    Min((3000 * Pow(3, a - 1)) \div Pow(2, a - 1), 20000)

\* ultimate.py:170: min(self.consecutive_failures * 5.0, 25.0)
ultimate_failure_delay(cf) == Min(cf * 5000, 25000)

\* ultimate.py:176: the cap
UltimateCap == 60000

\* ultimate.py:153-176
calculate_ultimate_delay(att, succ, cf, a, s, r) ==
    LET base_delay == 5000 + Uniform(3000, r[1])
        jitter == Uniform(5000, r[2])
        total_delay == base_delay + strategy_delay(att, succ, s, 10000)
                           + ultimate_attempt_delay(a)
                           + ultimate_failure_delay(cf) + jitter
    IN  Min(total_delay, UltimateCap)

\* perfect.py:181: min(self.consecutive_failures * 0.5, 2.0)
perfect_failure_delay(cf) == Min(cf * 500, 2000)

\* perfect.py:187: the cap
PerfectCap == 5000

\* perfect.py:175-187 (attempt and strategy are not read)
calculate_perfect_delay(att, succ, cf, a, s, r) ==
    LET base_delay == 1000 + Uniform(2000, r[1])
        jitter == Uniform(1000, r[2])
        total_delay == base_delay + perfect_failure_delay(cf) + jitter
    IN  Min(total_delay, PerfectCap)

\* the delay computation of handler v
DelayOf(v, att, succ, cf, a, s, r) ==
    CASE v = "enhanced" -> calculate_delay(att, succ, cf, a, s, r)
      [] v = "ultimate" -> calculate_ultimate_delay(att, succ, cf, a, s, r)
      [] OTHER          -> calculate_perfect_delay(att, succ, cf, a, s, r)

(***************************************************************************)
(* The handler after construction (__init__) and before the first call.    *)
(***************************************************************************)
\* no dictionary has been returned yet
NoResult ==
    [success |-> FALSE, error |-> None, strategy |-> Unbound, attempt |-> 0,
     status_code |-> NoStatus]

\* no attempt has begun yet
NoSnapshot ==
    [consecutive_failures |-> 0, attempts |-> 0, successes |-> 0,
     success_count |-> 0, strategy |-> Unbound]

\* the threads of the development server that app.run starts
\* (enhanced.py:888, ultimate.py:901), each serving one /delta/search
\* request at a time
\* no statistics update has been made yet
NothingRecorded(v) ==
    [attempts |-> IF v \in StatVariants
                  THEN [s \in Range(Catalog(v)) |-> 0] ELSE <<>>,
     failures |-> 0]

\* no second controller
NoTwin == [attempts |-> <<>>, successes |-> <<>>, consecutive_failures |-> 0,
           current_strategy_index |-> 0, strategy |-> Unbound,
           pc |-> "absent", restored |-> FALSE, calls |-> 0]

\* no endpoint has answered yet
NoReply == [kind |-> "none", status |-> NoStatus]

Threads == {"t1", "t2"}

\* a thread that is not inside make_delta_request
IdleThread ==
    [pc |-> "idle", max_retries |-> 0, attempt |-> 0, strategy |-> Unbound,
     resp |-> None, rec |-> FALSE, tmp |-> 0]

\* enhanced.py:59-68, ultimate.py:54-65, perfect.py:82-92, service.py:43-48
Init ==
    /\ variant \in Variants
    /\ strategy_success_rates =
           IF variant \in StatVariants
           THEN [s \in Range(Catalog(variant)) |-> 0] ELSE <<>>
    /\ strategy_attempts =
           IF variant \in StatVariants
           THEN [s \in Range(Catalog(variant)) |-> 0] ELSE <<>>
    /\ request_count = 0
    /\ success_count = 0
    /\ challenge_count = 0
    /\ access_denied_count = 0
    /\ timeout_count = 0
    /\ consecutive_failures = 0
    /\ current_strategy_index = 0
    /\ current_strategy = 0
    /\ pc = "idle"
    /\ max_retries = 0
    /\ attempt = 0
    /\ strategy = Unbound
    /\ response = NoResponse
    /\ exc = None
    /\ outcome = None
    /\ result = NoResult
    /\ calls_made = 0
    /\ total_calls = 0
    /\ snap = NoSnapshot
    /\ th = [i \in Threads |-> IdleThread]
    /\ delay = 0
    /\ rnd = <<0, 0>>
    /\ now = 0
    /\ last_request_time = 0
    /\ recorded = NothingRecorded(variant)
    /\ serialized = FALSE
    /\ twin = NoTwin
    /\ reply = NoReply
    /\ ScriptsAbsent

(***************************************************************************)
(* The dictionaries make_delta_request returns.                            *)
(***************************************************************************)
\* enhanced.py:716-722
SuccessResult(s, a, code) ==
    [success |-> TRUE, error |-> None, strategy |-> s, attempt |-> a,
     status_code |-> code]

\* a slip: the attempt is reported 0-based
FailureResultZeroBased(err, s, a, code) ==
    [success |-> FALSE, error |-> err, strategy |-> s, attempt |-> a - 1,
     status_code |-> code]

\* a slip: the status code is left out of the dictionary
FailureResultNoStatus(err, s, a, code) ==
    [success |-> FALSE, error |-> err, strategy |-> s, attempt |-> a,
     status_code |-> NoStatus]

\* enhanced.py:735-742, 755-762, 774-781, 793-798, 800-805
\* (code is NoStatus where the dictionary has no status_code key)
FailureResult(err, s, a, code) ==
    [success |-> FALSE, error |-> err, strategy |-> s, attempt |-> a,
     status_code |-> code]

\* the statistics an attempt starts from
Snapshot(s) ==
    [consecutive_failures |-> consecutive_failures,
     attempts  |-> IF variant \in StatVariants THEN strategy_attempts[s] ELSE 0,
     successes |-> IF variant \in StatVariants
                   THEN strategy_success_rates[s] ELSE 0,
     success_count |-> success_count,
     strategy |-> s]

\* self.update_strategy_stats(strategy, success) on the handler's fields
UpdateStats(success) ==
    LET new == update_strategy_stats(strategy_attempts, strategy_success_rates,
                                     consecutive_failures, strategy, success)
    IN  /\ strategy_attempts' = new.attempts
        /\ strategy_success_rates' = new.successes
        /\ consecutive_failures' = new.consecutive_failures

\* a slip: a failure is returned at once, whatever the attempt number
RetryOrReturnNoRetry(err, code) ==
    /\ pc' = "returned"
    /\ result' = [success |-> FALSE, error |-> err, strategy |-> strategy,
                  attempt |-> attempt, status_code |-> code]

\* `if attempt < max_retries: ... continue / else: return {...}`
\* (enhanced.py:729-742 and the three copies below it)
RetryOrReturn(err, code) ==
    IF attempt < max_retries
    THEN /\ pc' = "sleep"
         /\ result' = result
    ELSE /\ pc' = "returned"
         /\ result' = FailureResult(err, strategy, attempt, code)

(***************************************************************************)
(* make_delta_request of Enhanced, Ultimate and Perfect.                   *)
(***************************************************************************)
\* a slip: a new call starts from consecutive_failures = 0
StartCallResetting(m) ==
    /\ variant \in StatVariants
    /\ pc \in {"idle", "returned", "raised"}
    /\ request_count < MaxRequests
    /\ total_calls + m <= MaxTotalAttempts
    /\ variant = "perfect" => total_calls + m <= MaxPerfectAttempts
    /\ request_count' = request_count + 1
    /\ consecutive_failures' = 0
    /\ max_retries' = m
    /\ attempt' = 0
    /\ strategy' = Unbound
    /\ response' = NoResponse
    /\ exc' = None
    /\ outcome' = None
    /\ result' = NoResult
    /\ calls_made' = 0
    /\ snap' = NoSnapshot
    /\ pc' = "for"
    /\ UNCHANGED <<elsewhere, variant, strategy_success_rates, strategy_attempts,
                   success_count, challenge_count, access_denied_count,
                   timeout_count, current_strategy_index, current_strategy,
                   total_calls>>

\* enhanced.py:198-207: entry; request_count += 1
StartCall(m) ==
    /\ variant \in StatVariants
    /\ pc \in {"idle", "returned", "raised"}
    /\ request_count < MaxRequests
    /\ total_calls + m <= MaxTotalAttempts
    /\ variant = "perfect" => total_calls + m <= MaxPerfectAttempts
    /\ request_count' = request_count + 1
    /\ max_retries' = m
    /\ attempt' = 0
    /\ strategy' = Unbound
    /\ response' = NoResponse
    /\ exc' = None
    /\ outcome' = None
    /\ result' = NoResult
    /\ calls_made' = 0
    /\ snap' = NoSnapshot
    /\ pc' = "for"
    /\ UNCHANGED <<elsewhere, variant, stats, success_count, challenge_count,
                   access_denied_count, timeout_count, current_strategy_index,
                   current_strategy, total_calls>>

\* enhanced.py:209-211: the for statement takes the next attempt number and
\* the strategy is selected
ForNext ==
    /\ variant \in StatVariants
    /\ pc = "for"
    /\ attempt < max_retries
    /\ \E s \in SelectStrategy :
          /\ strategy' = s
          /\ snap' = Snapshot(s)
    /\ attempt' = attempt + 1
    /\ response' = NoResponse
    /\ exc' = None
    /\ outcome' = None
    /\ pc' = "send"
    /\ UNCHANGED <<elsewhere, variant, stats, counters, current_strategy_index,
                   current_strategy, max_retries, result, calls_made,
                   total_calls>>

\* enhanced.py:800-805 (service.py:697-702): range(1, max_retries + 1) is
\* exhausted; `strategy` is read, which raises UnboundLocalError when the
\* loop body never ran
ForExhausted ==
    /\ pc = "for"
    /\ attempt >= max_retries
    /\ IF strategy = Unbound
       THEN /\ pc' = "raised"
            /\ result' = NoResult
       ELSE /\ pc' = "returned"
            /\ result' = FailureResult("Max retries exceeded", strategy,
                                       max_retries, NoStatus)
    /\ UNCHANGED <<elsewhere, variant, stats, counters, current_strategy_index,
                   current_strategy, max_retries, attempt, strategy, response,
                   exc, outcome, calls_made, total_calls, snap>>

\* enhanced.py:702-708: requests.post returns a response
SendRequest(r) ==
    /\ pc = "send"
    /\ response' = r
    /\ calls_made' = calls_made + 1
    /\ total_calls' = total_calls + 1
    /\ pc' = "respond"
    /\ UNCHANGED <<elsewhere, variant, stats, counters, current_strategy_index,
                   current_strategy, max_retries, attempt, strategy, exc,
                   outcome, result, snap>>

\* enhanced.py:702-708, 783: requests.post raises
SendRaises(e) ==
    /\ pc = "send"
    /\ exc' = e
    /\ calls_made' = calls_made + 1
    /\ total_calls' = total_calls + 1
    /\ pc' = "except"
    /\ UNCHANGED <<elsewhere, variant, stats, counters, current_strategy_index,
                   current_strategy, max_retries, attempt, strategy, response,
                   outcome, result, snap>>

\* enhanced.py:712-714: status 200
OnSuccess ==
    /\ variant \in StatVariants
    /\ pc = "respond"
    /\ response.status_code = 200
    /\ success_count' = success_count + 1
    /\ UpdateStats(TRUE)
    /\ outcome' = "Success"
    /\ pc' = "build"
    /\ UNCHANGED <<elsewhere, variant, request_count, challenge_count, access_denied_count,
                   timeout_count, current_strategy_index, current_strategy,
                   max_retries, attempt, strategy, response, exc, result,
                   calls_made, total_calls, snap>>

\* a slip: after a success the loop goes on
ReturnSuccessThenRetry ==
    /\ pc = "build"
    /\ response.body.json # "invalid"
    /\ result' = result
    /\ pc' = "sleep"
    /\ UNCHANGED <<elsewhere, variant, stats, counters, current_strategy_index,
                   current_strategy, max_retries, attempt, strategy, response,
                   exc, outcome, calls_made, total_calls, snap>>

\* enhanced.py:716-722 (service.py:642-648): the dictionary is built,
\* response.json() yields the data
ReturnSuccess ==
    /\ pc = "build"
    /\ response.body.json # "invalid"
    /\ result' = SuccessResult(strategy, attempt, response.status_code)
    /\ pc' = "returned"
    /\ UNCHANGED <<elsewhere, variant, stats, counters, current_strategy_index,
                   current_strategy, max_retries, attempt, strategy, response,
                   exc, outcome, calls_made, total_calls, snap>>

\* enhanced.py:718, 783 (service.py:644, 682): response.json() raises inside
\* the try block
JsonRaises ==
    /\ pc = "build"
    /\ response.body.json = "invalid"
    /\ exc' = JsonError
    /\ pc' = "except"
    /\ UNCHANGED <<elsewhere, variant, response, stats, counters, current_strategy_index,
                   current_strategy, max_retries, attempt, strategy, outcome,
                   result, calls_made, total_calls, snap>>

\* enhanced.py:724-742
OnChallenge ==
    /\ variant \in StatVariants
    /\ pc = "respond"
    /\ response.status_code # 200
    /\ is_challenge_response(response)
    /\ challenge_count' = challenge_count + 1
    /\ UpdateStats(FALSE)
    /\ outcome' = "Challenged"
    /\ RetryOrReturn("Challenge not resolved after max retries",
                     response.status_code)
    /\ UNCHANGED <<elsewhere, variant, response,
                   request_count, success_count, access_denied_count,
                   timeout_count, current_strategy_index, current_strategy,
                   max_retries, attempt, strategy, exc, calls_made,
                   total_calls, snap>>

\* enhanced.py:744-762
OnAccessDenied ==
    /\ variant \in StatVariants
    /\ pc = "respond"
    /\ response.status_code # 200
    /\ ~is_challenge_response(response)
    /\ is_access_denied(response)
    /\ access_denied_count' = access_denied_count + 1
    /\ UpdateStats(FALSE)
    /\ outcome' = "AccessDenied"
    /\ RetryOrReturn("Access denied after max retries", response.status_code)
    /\ UNCHANGED <<elsewhere, variant, response,
                   request_count, success_count, challenge_count,
                   timeout_count, current_strategy_index, current_strategy,
                   max_retries, attempt, strategy, exc, calls_made,
                   total_calls, snap>>

\* enhanced.py:764-781
OnOtherError ==
    /\ variant \in StatVariants
    /\ pc = "respond"
    /\ response.status_code # 200
    /\ ~is_challenge_response(response)
    /\ ~is_access_denied(response)
    /\ UpdateStats(FALSE)
    /\ outcome' = "OtherHttpError"
    /\ RetryOrReturn("HTTP", response.status_code)
    /\ UNCHANGED <<elsewhere, variant, response,
                   counters, current_strategy_index, current_strategy,
                   max_retries, attempt, strategy, exc, calls_made,
                   total_calls, snap>>

\* enhanced.py:783-798 (ultimate.py:791-809 and perfect.py:802-820 also
\* count the timeouts)
OnException ==
    /\ variant \in StatVariants
    /\ pc = "except"
    /\ UpdateStats(FALSE)
    /\ timeout_count' =
           IF variant \in {"ultimate", "perfect"} /\ IsTimeout(exc)
           THEN timeout_count + 1 ELSE timeout_count
    /\ outcome' = "TransportError"
    /\ RetryOrReturn(exc, NoStatus)
    /\ UNCHANGED <<elsewhere, variant, request_count, success_count, challenge_count,
                   access_denied_count, current_strategy_index,
                   current_strategy, max_retries, attempt, strategy, response,
                   exc, calls_made, total_calls, snap>>

\* enhanced.py:730-733: time.sleep(delay); continue
Sleep ==
    /\ pc = "sleep"
    /\ pc' = "for"
    /\ UNCHANGED <<elsewhere, variant, stats, counters, current_strategy_index,
                   current_strategy, max_retries, attempt, strategy, response,
                   exc, outcome, result, calls_made, total_calls, snap>>

(***************************************************************************)
(* make_delta_request of DeltaChallengeHandler: a rotating index instead   *)
(* of statistics.                                                          *)
(***************************************************************************)
\* a slip: the index is advanced without the modulo
get_next_strategy_no_wrap(cur) ==
    [strategy |-> BROWSER_STRATEGIES[cur + 1],
     current_strategy |-> cur + 1]

\* service.py:50-54: the strategy returned and the index left behind
get_next_strategy(cur) ==
    [strategy |-> BROWSER_STRATEGIES[cur + 1],
     current_strategy |-> (cur + 1) % Len(BROWSER_STRATEGIES)]

\* service.py:129-139: entry; request_count += 1; the first strategy
SvcStartCall(m) ==
    /\ variant = "service"
    /\ pc \in {"idle", "returned", "raised"}
    /\ request_count < MaxRequests
    /\ total_calls + m <= MaxTotalAttempts
    /\ request_count' = request_count + 1
    /\ strategy' = get_next_strategy(current_strategy).strategy
    /\ current_strategy' = get_next_strategy(current_strategy).current_strategy
    /\ max_retries' = m
    /\ attempt' = 0
    /\ response' = NoResponse
    /\ exc' = None
    /\ outcome' = None
    /\ result' = NoResult
    /\ calls_made' = 0
    /\ snap' = NoSnapshot
    /\ pc' = "for"
    /\ UNCHANGED <<elsewhere, variant, stats, success_count, challenge_count,
                   access_denied_count, timeout_count, current_strategy_index,
                   total_calls>>

\* service.py:141-142: the for statement takes the next attempt number
SvcForNext ==
    /\ variant = "service"
    /\ pc = "for"
    /\ attempt < max_retries
    /\ attempt' = attempt + 1
    /\ snap' = Snapshot(strategy)
    /\ response' = NoResponse
    /\ exc' = None
    /\ outcome' = None
    /\ pc' = "send"
    /\ UNCHANGED <<elsewhere, variant, stats, counters, current_strategy_index,
                   current_strategy, max_retries, strategy, result, calls_made,
                   total_calls>>

\* service.py:639-641: status 200
SvcOnSuccess ==
    /\ variant = "service"
    /\ pc = "respond"
    /\ response.status_code = 200
    /\ success_count' = success_count + 1
    /\ outcome' = "Success"
    /\ pc' = "build"
    /\ UNCHANGED <<elsewhere, variant, stats, request_count, challenge_count,
                   access_denied_count, timeout_count, current_strategy_index,
                   current_strategy, max_retries, attempt, strategy, response,
                   exc, result, calls_made, total_calls, snap>>

\* service.py:650-669: a challenge switches the strategy and retries
SvcOnChallenge ==
    /\ variant = "service"
    /\ pc = "respond"
    /\ response.status_code # 200
    /\ is_challenge_response(response)
    /\ challenge_count' = challenge_count + 1
    /\ outcome' = "Challenged"
    /\ IF attempt < max_retries
       THEN /\ strategy' = get_next_strategy(current_strategy).strategy
            /\ current_strategy' =
                   get_next_strategy(current_strategy).current_strategy
            /\ pc' = "sleep"
            /\ result' = result
       ELSE /\ pc' = "returned"
            /\ result' = FailureResult(
                   "Challenge not resolved after max retries", strategy,
                   attempt, response.status_code)
            /\ UNCHANGED <<strategy, current_strategy>>
    /\ UNCHANGED <<elsewhere, variant, response,
                   stats, request_count, success_count,
                   access_denied_count, timeout_count, current_strategy_index,
                   max_retries, attempt, exc, calls_made, total_calls,
                   snap>>

\* service.py:671-680: any other status is returned at once
SvcOnOtherError ==
    /\ variant = "service"
    /\ pc = "respond"
    /\ response.status_code # 200
    /\ ~is_challenge_response(response)
    /\ outcome' = (IF is_access_denied(response)
                   THEN "AccessDenied" ELSE "OtherHttpError")
    /\ pc' = "returned"
    /\ result' = FailureResult("HTTP", strategy, attempt, response.status_code)
    /\ UNCHANGED <<elsewhere, variant, response,
                   stats, counters, current_strategy_index,
                   current_strategy, max_retries, attempt, strategy, exc, calls_made, total_calls, snap>>

\* service.py:682-695
SvcOnException ==
    /\ variant = "service"
    /\ pc = "except"
    /\ outcome' = "TransportError"
    /\ RetryOrReturn(exc, NoStatus)
    /\ UNCHANGED <<elsewhere, variant, stats, counters, current_strategy_index,
                   current_strategy, max_retries, attempt, strategy, response,
                   exc, calls_made, total_calls, snap>>

(***************************************************************************)
(* The process.                                                            *)
(***************************************************************************)
Next ==
    \/ \E m \in 0..MaxRetries : StartCall(m)
    \/ ForNext
    \/ ForExhausted
    \/ \E r \in Responses : SendRequest(r)
    \/ \E e \in TransportErrors : SendRaises(e)
    \/ OnSuccess
    \/ ReturnSuccess
    \/ JsonRaises
    \/ OnChallenge
    \/ OnAccessDenied
    \/ OnOtherError
    \/ OnException
    \/ Sleep
    \/ \E m \in 0..MaxRetries : SvcStartCall(m)
    \/ SvcForNext
    \/ SvcOnSuccess
    \/ SvcOnChallenge
    \/ SvcOnOtherError
    \/ SvcOnException

Spec == Init /\ [][Next]_vars

(***************************************************************************)
(* Concurrent use.  The development server serves every request on a       *)
(* thread of its own, and every request calls make_delta_request on the    *)
(* one module-level handler (enhanced.py:808, 811-826).  Nothing           *)
(* serialises the calls.  Each thread runs the loop of make_delta_request; *)
(* an augmented assignment `x += 1` on a shared field is a read followed   *)
(* by a write, and another thread can run between the two.  The selection  *)
(* reads the dictionaries in one step.  The three kinds of failed attempt  *)
(* do the same bookkeeping on the shared statistics and are one response   *)
(* kind here.                                                              *)
(***************************************************************************)
ConcVariants == {"enhanced", "ultimate"}

\* what an upstream call can come back with: a 200 with a body, a 200
\* whose body does not decode, anything that is recorded as a failure
ConcResponses == {"ok", "badjson", "fail"}

ConcInit == Init /\ variant \in ConcVariants

\* the fields the threads share and the model of concurrent use leaves alone
concFrame == <<variant, challenge_count, access_denied_count, timeout_count,
               current_strategy_index, current_strategy, pc, max_retries,
               attempt, strategy, response, exc, outcome, result,
               snap, delay, rnd, now, last_request_time, serialized, scripts, twin,
               reply>>

\* the attempts the calls started so far may make (total_calls), the
\* upstream calls issued so far by all threads together (calls_made) and
\* the account of the updates made
concBudget == <<total_calls, calls_made, recorded>>

\* a thread leaves make_delta_request: its locals are gone
ThreadReturns(i) == th' = [th EXCEPT ![i] = IdleThread]

\* self.get_best_strategy() / self.get_ultimate_strategy() on the shared fields
ConcSelect ==
    IF variant = "enhanced"
    THEN get_best_strategy(strategy_attempts, strategy_success_rates,
                           consecutive_failures, current_strategy_index)
    ELSE get_ultimate_strategy(strategy_attempts, strategy_success_rates,
                               consecutive_failures, current_strategy_index)

\* the shared field an augmented assignment at position p reads and writes
ConcField(i, p) ==
    CASE p \in {"load_rc", "store_rc"}     -> request_count
      [] p \in {"load_sc", "store_sc"}     -> success_count
      [] p \in {"load_att", "store_att"}   -> strategy_attempts[th[i].strategy]
      [] p \in {"load_succ", "store_succ"} ->
             strategy_success_rates[th[i].strategy]
      [] OTHER                             -> consecutive_failures

\* enhanced.py:198-207: a request thread enters make_delta_request
CStartCall(i, m) ==
    /\ th[i].pc = "idle"
    /\ request_count < MaxConcAttempts
    /\ total_calls + m <= MaxConcAttempts
    /\ th' = [th EXCEPT ![i] = [IdleThread EXCEPT !.pc = "load_rc",
                                                  !.max_retries = m]]
    /\ total_calls' = total_calls + m
    /\ UNCHANGED <<concFrame, stats, request_count, success_count,
                   calls_made, recorded>>

\* the read half of request_count += 1 (enhanced.py:207),
\* success_count += 1 (713), strategy_attempts[strategy] += 1 (191),
\* strategy_success_rates[strategy] += 1 (193), consecutive_failures += 1 (196)
CLoad(i) ==
    /\ th[i].pc \in {"load_rc", "load_sc", "load_att", "load_succ", "load_cf"}
    /\ ~(serialized /\ th[i].pc = "load_att")
    /\ th' = [th EXCEPT ![i].tmp = ConcField(i, th[i].pc),
                        ![i].pc =
                            CASE th[i].pc = "load_rc"   -> "store_rc"
                              [] th[i].pc = "load_sc"   -> "store_sc"
                              [] th[i].pc = "load_att"  -> "store_att"
                              [] th[i].pc = "load_succ" -> "store_succ"
                              [] OTHER                  -> "store_cf"]
    /\ UNCHANGED <<concFrame, stats, request_count, success_count,
                   concBudget>>

\* the write half of the same five statements, and the statement that
\* follows each
CStore(i) ==
    /\ th[i].pc \in {"store_rc", "store_sc", "store_att", "store_succ",
                     "store_cf"}
    /\ request_count' =
           IF th[i].pc = "store_rc" THEN th[i].tmp + 1 ELSE request_count
    /\ success_count' =
           IF th[i].pc = "store_sc" THEN th[i].tmp + 1 ELSE success_count
    /\ strategy_attempts' =
           IF th[i].pc = "store_att"
           THEN [strategy_attempts EXCEPT ![th[i].strategy] = th[i].tmp + 1]
           ELSE strategy_attempts
    /\ strategy_success_rates' =
           IF th[i].pc = "store_succ"
           THEN [strategy_success_rates EXCEPT
                    ![th[i].strategy] = th[i].tmp + 1]
           ELSE strategy_success_rates
    /\ consecutive_failures' =
           IF th[i].pc = "store_cf" THEN th[i].tmp + 1
           ELSE consecutive_failures
    /\ IF th[i].pc = "store_cf" /\ th[i].attempt >= th[i].max_retries
       THEN ThreadReturns(i)
       ELSE th' = [th EXCEPT
                ![i].tmp = 0,
                ![i].pc =
                    CASE th[i].pc = "store_rc"   -> "for"
                      [] th[i].pc = "store_sc"   -> "load_att"
                      [] th[i].pc = "store_att"  ->
                             IF th[i].rec THEN "load_succ" ELSE "load_cf"
                      [] th[i].pc = "store_succ" -> "reset_cf"
                      [] OTHER                   -> "sleep"]
    /\ recorded' =
           CASE th[i].pc = "store_att" ->
                    [recorded EXCEPT !.attempts[th[i].strategy] = @ + 1]
             [] th[i].pc = "store_cf"  -> [recorded EXCEPT !.failures = @ + 1]
             [] OTHER                  -> recorded
    /\ UNCHANGED <<concFrame, total_calls, calls_made>>

\* enhanced.py:209-211: the next attempt number, the selection
CForNext(i) ==
    /\ th[i].pc = "for"
    /\ th[i].attempt < th[i].max_retries
    /\ th' = [th EXCEPT ![i].attempt = @ + 1,
                        ![i].strategy = ConcSelect,
                        ![i].resp = None,
                        ![i].pc = "send"]
    /\ calls_made' = calls_made + 1
    /\ UNCHANGED <<concFrame, stats, request_count, success_count,
                   total_calls, recorded>>

\* enhanced.py:800-805: range(1, max_retries + 1) is empty and the final
\* return raises on the unbound `strategy`; the request ends
CForExhausted(i) ==
    /\ th[i].pc = "for"
    /\ th[i].attempt >= th[i].max_retries
    /\ ThreadReturns(i)
    /\ UNCHANGED <<concFrame, stats, request_count, success_count,
                   concBudget>>

\* enhanced.py:702-712, 724, 744, 764, 783: the upstream call comes back
\* and the branch is taken
CRespond(i, r) ==
    /\ th[i].pc = "send"
    /\ th' = [th EXCEPT ![i].resp = r,
                        ![i].rec = (r # "fail"),
                        ![i].pc = IF r = "fail" THEN "load_att"
                                  ELSE "load_sc"]
    /\ UNCHANGED <<concFrame, stats, request_count, success_count,
                   concBudget>>

\* enhanced.py:194 and 716-722: consecutive_failures = 0, then the success
\* dictionary is built; response.json() raising leads to the except
\* clause (783-785), which records a failure
CResetFailures(i) ==
    /\ th[i].pc = "reset_cf"
    /\ consecutive_failures' = 0
    /\ IF th[i].resp = "badjson"
       THEN th' = [th EXCEPT ![i].rec = FALSE, ![i].pc = "load_att"]
       ELSE ThreadReturns(i)
    /\ recorded' = [recorded EXCEPT !.failures = 0]
    /\ UNCHANGED <<concFrame, strategy_success_rates, strategy_attempts,
                   request_count, success_count, total_calls, calls_made>>

\* enhanced.py:730-733: time.sleep(delay); continue
CSleep(i) ==
    /\ th[i].pc = "sleep"
    /\ th' = [th EXCEPT ![i].pc = "for"]
    /\ UNCHANGED <<concFrame, stats, request_count, success_count,
                   concBudget>>

ConcNext ==
    \E i \in Threads :
        \/ \E m \in 0..MaxConcRetries : CStartCall(i, m)
        \/ CLoad(i)
        \/ CStore(i)
        \/ CForNext(i)
        \/ CForExhausted(i)
        \/ \E r \in ConcResponses : CRespond(i, r)
        \/ CResetFailures(i)
        \/ CSleep(i)

SpecConc == ConcInit /\ [][ConcNext]_vars

(***************************************************************************)
(* The same threads with and without a lock around update_strategy_stats.  *)
(* The source takes no lock (`serialized` is FALSE in every other view).   *)
(* With `serialized` the body of update_strategy_stats (enhanced.py:       *)
(* 189-196) runs as one step, as it would under a lock held for the call;  *)
(* request_count += 1 and success_count += 1 are outside of it and stay    *)
(* as they are.  `recorded` counts the updates as they are made: per       *)
(* strategy the increments of strategy_attempts, and the increments of     *)
(* consecutive_failures since it was last set to 0.                        *)
(***************************************************************************)
SharedInit ==
    /\ variant \in ConcVariants
    /\ strategy_success_rates = [s \in Range(Catalog(variant)) |-> 0]
    /\ strategy_attempts = [s \in Range(Catalog(variant)) |-> 0]
    /\ request_count = 0
    /\ success_count = 0
    /\ challenge_count = 0
    /\ access_denied_count = 0
    /\ timeout_count = 0
    /\ consecutive_failures = 0
    /\ current_strategy_index = 0
    /\ current_strategy = 0
    /\ pc = "idle"
    /\ max_retries = 0
    /\ attempt = 0
    /\ strategy = Unbound
    /\ response = NoResponse
    /\ exc = None
    /\ outcome = None
    /\ result = NoResult
    /\ calls_made = 0
    /\ total_calls = 0
    /\ snap = NoSnapshot
    /\ th = [i \in Threads |-> IdleThread]
    /\ delay = 0
    /\ rnd = <<0, 0>>
    /\ now = 0
    /\ last_request_time = 0
    /\ recorded = NothingRecorded(variant)
    /\ serialized \in BOOLEAN
    /\ twin = NoTwin
    /\ reply = NoReply
    /\ ScriptsAbsent

\* enhanced.py:189-196 under a lock: the whole of
\* update_strategy_stats(strategy, success) in one step, then the
\* statement that follows the call
SerialUpdate(i) ==
    /\ serialized
    /\ th[i].pc = "load_att"
    /\ LET u == update_strategy_stats(strategy_attempts,
                                      strategy_success_rates,
                                      consecutive_failures,
                                      th[i].strategy, th[i].rec)
       IN /\ strategy_attempts' = u.attempts
          /\ strategy_success_rates' = u.successes
          /\ consecutive_failures' = u.consecutive_failures
    /\ recorded' = [attempts |-> [recorded.attempts EXCEPT
                                     ![th[i].strategy] = @ + 1],
                    failures |-> IF th[i].rec THEN 0
                                 ELSE recorded.failures + 1]
    /\ IF th[i].rec
       THEN IF th[i].resp = "badjson"
            THEN th' = [th EXCEPT ![i].rec = FALSE]
            ELSE ThreadReturns(i)
       ELSE IF th[i].attempt >= th[i].max_retries
            THEN ThreadReturns(i)
            ELSE th' = [th EXCEPT ![i].pc = "sleep"]
    /\ UNCHANGED <<concFrame, request_count, success_count, total_calls,
                   calls_made>>

SharedNext ==
    \/ ConcNext
    \/ \E i \in Threads : SerialUpdate(i)

SpecShared == SharedInit /\ [][SharedNext]_vars

(***************************************************************************)
(* The statistics over many attempts.  Seen from the statistics, the       *)
(* calls of a sequential caller are one sequence of selections, each       *)
(* followed by the recording of its outcome: the entry and the return of   *)
(* make_delta_request touch neither the per-strategy counters nor          *)
(* consecutive_failures.  This view follows that sequence further than     *)
(* the step-by-step view does.                                             *)
(***************************************************************************)
LoopVariants == {"enhanced", "ultimate"}

LoopInit == Init /\ variant \in LoopVariants

\* what the sequence of selections and recordings leaves alone
loopFrame == <<elsewhere, variant, counters, current_strategy_index,
               current_strategy, max_retries, attempt, response, exc, outcome,
               result, calls_made, snap>>

\* enhanced.py:211 (ultimate.py:220): the selection for the next attempt
LoopSelect ==
    /\ pc \in {"idle", "for"}
    /\ total_calls < MaxLoopAttempts
    /\ strategy' \in SelectStrategy
    /\ total_calls' = total_calls + 1
    /\ pc' = "send"
    /\ UNCHANGED <<loopFrame, stats>>

\* enhanced.py:714 with a body that decodes (success), 727, 747, 766, 785
\* after requests.post raised (failure): one update_strategy_stats call
LoopRecord(success) ==
    /\ pc = "send"
    /\ UpdateStats(success)
    /\ pc' = "for"
    /\ UNCHANGED <<loopFrame, strategy, total_calls>>

\* enhanced.py:714, 718, 783-785: status 200 is recorded, response.json()
\* raises, the except clause records the failure
LoopRecordDecodeFailure ==
    /\ pc = "send"
    /\ LET first == update_strategy_stats(strategy_attempts,
                        strategy_success_rates, consecutive_failures,
                        strategy, TRUE)
           second == update_strategy_stats(first.attempts, first.successes,
                        first.consecutive_failures, strategy, FALSE)
       IN  /\ strategy_attempts' = second.attempts
           /\ strategy_success_rates' = second.successes
           /\ consecutive_failures' = second.consecutive_failures
    /\ pc' = "for"
    /\ UNCHANGED <<loopFrame, strategy, total_calls>>

LoopNext ==
    \/ LoopSelect
    \/ \E success \in BOOLEAN : LoopRecord(success)
    \/ LoopRecordDecodeFailure

SpecStats == LoopInit /\ [][LoopNext]_vars

(***************************************************************************)
(* The delay computations on their own: the handler is in any state of     *)
(* its counters in which the used strategy has no more successes than      *)
(* attempts, a failed attempt has just been recorded, and the delay        *)
(* before the next attempt is computed.                                    *)
(***************************************************************************)
DelayInit ==
    /\ variant \in StatVariants
    /\ strategy = Catalog(variant)[1]
    /\ \E n \in 0..MaxDelayStat : \E k \in 0..n :
          /\ strategy_attempts =
                 [s \in Range(Catalog(variant)) |->
                     IF s = strategy THEN n ELSE 0]
          /\ strategy_success_rates =
                 [s \in Range(Catalog(variant)) |->
                     IF s = strategy THEN k ELSE 0]
    /\ consecutive_failures \in 0..MaxDelayFailures
    /\ attempt \in 1..MaxDelayAttempt
    /\ max_retries = attempt + 1
    /\ pc = "respond"
    /\ request_count = 0
    /\ success_count = 0
    /\ challenge_count = 0
    /\ access_denied_count = 0
    /\ timeout_count = 0
    /\ current_strategy_index = 0
    /\ current_strategy = 0
    /\ response = NoResponse
    /\ exc = None
    /\ outcome = None
    /\ result = NoResult
    /\ calls_made = 0
    /\ total_calls = 0
    /\ snap = NoSnapshot
    /\ th = [i \in Threads |-> IdleThread]
    /\ delay = 0
    /\ rnd = <<0, 0>>
    /\ now = 0
    /\ last_request_time = 0
    /\ recorded = NothingRecorded(variant)
    /\ serialized = FALSE
    /\ twin = NoTwin
    /\ reply = NoReply
    /\ ScriptsAbsent

\* enhanced.py:730 (750, 769, 788): delay = self.calculate_delay(attempt,
\* strategy); ultimate.py:738, perfect.py:749
ComputeDelay(r) ==
    /\ pc = "respond"
    /\ rnd' = r
    /\ delay' = DelayOf(variant, strategy_attempts, strategy_success_rates,
                        consecutive_failures, attempt, strategy, r)
    /\ pc' = "sleep"
    /\ UNCHANGED <<th, now, last_request_time, recorded, serialized, scripts, twin,
                   reply, variant, stats, counters,
                   current_strategy_index, current_strategy, max_retries,
                   attempt, strategy, response, exc, outcome, result,
                   calls_made, total_calls, snap>>

DelayNext == \E r \in RandomLevels \X RandomLevels : ComputeDelay(r)

SpecDelay == DelayInit /\ [][DelayNext]_vars

(***************************************************************************)
(* The clock.  One sequential caller; time.time() is `now`, in             *)
(* milliseconds, and moves only while the caller is between two calls,     *)
(* while an upstream call is in flight and inside time.sleep.  What the    *)
(* statistics are does not matter to the clock: the delay slept between    *)
(* two attempts is any of RetrySleeps.                                     *)
(***************************************************************************)
\* time.time() when the process starts: since the epoch, so further from 0
\* (the initial last_request_time) than any minimum interval
ProcessStart == 5000

\* how long the caller stays away between two calls
IdleGaps == {0, 1000, 2000, 4000}

\* how long an upstream call takes
PostDurations == {0, 1000}

\* values of the delay computed between two attempts
RetrySleeps == {1000, 6000}

\* what an upstream call ends in
PostOutcomes == {"ok", "badjson", "challenge", "httperror", "raise"}

\* a slip: every handler spaces its calls by 2 seconds
MinIntervalUniform(v) == 2000

\* enhanced.py:204 (3.0), ultimate.py:212 (5.0), perfect.py:223 (2.0),
\* service.py:135 (2.0)
MinInterval(v) ==
    CASE v = "enhanced" -> 3000
      [] v = "ultimate" -> 5000
      [] OTHER          -> 2000

\* __init__ (enhanced.py:59-68: last_request_time = 0) and the clock at
\* that moment
TimeInit ==
    /\ variant \in Variants
    /\ strategy_success_rates =
           IF variant \in StatVariants
           THEN [s \in Range(Catalog(variant)) |-> 0] ELSE <<>>
    /\ strategy_attempts =
           IF variant \in StatVariants
           THEN [s \in Range(Catalog(variant)) |-> 0] ELSE <<>>
    /\ request_count = 0
    /\ success_count = 0
    /\ challenge_count = 0
    /\ access_denied_count = 0
    /\ timeout_count = 0
    /\ consecutive_failures = 0
    /\ current_strategy_index = 0
    /\ current_strategy = 0
    /\ pc = "idle"
    /\ max_retries = 0
    /\ attempt = 0
    /\ strategy = Unbound
    /\ response = NoResponse
    /\ exc = None
    /\ outcome = None
    /\ result = NoResult
    /\ calls_made = 0
    /\ total_calls = 0
    /\ snap = NoSnapshot
    /\ th = [i \in Threads |-> IdleThread]
    /\ delay = 0
    /\ rnd = <<0, 0>>
    /\ now = ProcessStart
    /\ last_request_time = 0
    /\ recorded = NothingRecorded(variant)
    /\ serialized = FALSE
    /\ twin = NoTwin
    /\ reply = NoReply
    /\ ScriptsAbsent

\* what the clock view leaves alone
timeFrame == <<th, rnd, recorded, serialized, scripts, twin, reply, variant, stats, success_count, challenge_count,
               access_denied_count, timeout_count, current_strategy_index,
               current_strategy, strategy, response, exc, result, calls_made,
               total_calls, snap>>

\* the caller is between two calls for g milliseconds
TIdle(g) ==
    /\ pc = "idle"
    /\ g > 0
    /\ now + g <= MaxClock
    /\ now' = now + g
    /\ UNCHANGED <<timeFrame, request_count, max_retries, attempt, outcome,
                   delay, last_request_time, pc>>

\* enhanced.py:202-204: the interval has passed, no sleep;
\* 207: request_count += 1
TEnterNoWait(m) ==
    /\ pc = "idle"
    /\ request_count < MaxRequests
    /\ ~(now - last_request_time < MinInterval(variant))
    /\ request_count' = request_count + 1
    /\ max_retries' = m
    /\ attempt' = 0
    /\ outcome' = None
    /\ pc' = "for"
    /\ UNCHANGED <<timeFrame, delay, now, last_request_time>>

\* enhanced.py:202-205: time_since_last < 3.0, time.sleep is called with
\* 3.0 - time_since_last
TEnterWait(m) ==
    /\ pc = "idle"
    /\ request_count < MaxRequests
    /\ now - last_request_time < MinInterval(variant)
    /\ delay' = MinInterval(variant) - (now - last_request_time)
    /\ max_retries' = m
    /\ attempt' = 0
    /\ outcome' = None
    /\ pc' = "wait"
    /\ UNCHANGED <<timeFrame, request_count, now, last_request_time>>

\* enhanced.py:205-207: time.sleep returns; request_count += 1
TWait ==
    /\ pc = "wait"
    /\ now' = now + delay
    /\ delay' = 0
    /\ request_count' = request_count + 1
    /\ pc' = "for"
    /\ UNCHANGED <<timeFrame, max_retries, attempt, outcome,
                   last_request_time>>

\* enhanced.py:209: the for statement takes the next attempt number; the
\* upstream call of this attempt is issued at the time of this step
TForNext ==
    /\ pc = "for"
    /\ attempt < max_retries
    /\ attempt' = attempt + 1
    /\ outcome' = None
    /\ pc' = "send"
    /\ UNCHANGED <<timeFrame, request_count, max_retries, delay, now,
                   last_request_time>>

\* enhanced.py:800-805: no attempt is left
TForExhausted ==
    /\ pc = "for"
    /\ attempt >= max_retries
    /\ pc' = "idle"
    /\ UNCHANGED <<timeFrame, request_count, max_retries, attempt, outcome,
                   delay, now, last_request_time>>

\* the call returns after an upstream call that ended in o:
\* a 200 with a body (enhanced.py:716), any failure on the last attempt,
\* and in DeltaChallengeHandler any status that is no challenge
\* (service.py:671-680)
TReturns(o) ==
    \/ o = "ok"
    \/ attempt >= max_retries
    \/ variant = "service" /\ o = "httperror"

\* enhanced.py:702-710 and the branch taken: the upstream call takes d
\* milliseconds; when it returns a response last_request_time is set;
\* then the call returns or computes the delay before the next attempt
TPost(d, o) ==
    /\ pc = "send"
    /\ now + d <= MaxClock
    /\ now' = now + d
    /\ last_request_time' = IF o = "raise" THEN last_request_time ELSE now'
    /\ outcome' = o
    /\ IF TReturns(o)
       THEN pc' = "idle" /\ delay' = 0
       ELSE pc' = "sleep" /\ delay' \in RetrySleeps
    /\ UNCHANGED <<timeFrame, request_count, max_retries, attempt>>

\* enhanced.py:732-733: time.sleep(delay); continue
TSleep ==
    /\ pc = "sleep"
    /\ now + delay <= MaxClock
    /\ now' = now + delay
    /\ delay' = 0
    /\ pc' = "for"
    /\ UNCHANGED <<timeFrame, request_count, max_retries, attempt, outcome,
                   last_request_time>>

TimeNext ==
    \/ \E g \in IdleGaps : TIdle(g)
    \/ \E m \in 0..MaxRetries : TEnterNoWait(m)
    \/ \E m \in 0..MaxRetries : TEnterWait(m)
    \/ TWait
    \/ TForNext
    \/ TForExhausted
    \/ \E d \in PostDurations : \E o \in PostOutcomes : TPost(d, o)
    \/ TSleep

SpecTime == TimeInit /\ [][TimeNext]_vars

(***************************************************************************)
(* The clock under concurrent use.  Every request thread runs the entry    *)
(* of make_delta_request on the one shared handler: it reads the clock and *)
(* last_request_time, sleeps for what is left of the interval, issues its  *)
(* upstream calls and assigns last_request_time when a response comes      *)
(* back.  Time passes between any two steps of any thread.  A thread keeps *)
(* the end of its time.sleep in `until` and, for the properties, the time  *)
(* its call issued its first attempt in `first`.                           *)
(***************************************************************************)
ThrottleThread == [pc |-> "idle", max_retries |-> 0, attempt |-> 0,
                   until |-> 0, issued |-> FALSE, first |-> 0]

\* __init__ (enhanced.py:59-68) once, at module level (enhanced.py:808)
ThrottleInit ==
    /\ variant \in Variants
    /\ strategy_success_rates =
           IF variant \in StatVariants
           THEN [s \in Range(Catalog(variant)) |-> 0] ELSE <<>>
    /\ strategy_attempts =
           IF variant \in StatVariants
           THEN [s \in Range(Catalog(variant)) |-> 0] ELSE <<>>
    /\ request_count = 0
    /\ success_count = 0
    /\ challenge_count = 0
    /\ access_denied_count = 0
    /\ timeout_count = 0
    /\ consecutive_failures = 0
    /\ current_strategy_index = 0
    /\ current_strategy = 0
    /\ pc = "idle"
    /\ max_retries = 0
    /\ attempt = 0
    /\ strategy = Unbound
    /\ response = NoResponse
    /\ exc = None
    /\ outcome = None
    /\ result = NoResult
    /\ calls_made = 0
    /\ total_calls = 0
    /\ snap = NoSnapshot
    /\ th = [i \in Threads |-> ThrottleThread]
    /\ delay = 0
    /\ rnd = <<0, 0>>
    /\ now = ProcessStart
    /\ last_request_time = 0
    /\ recorded = NothingRecorded(variant)
    /\ serialized = FALSE
    /\ twin = NoTwin
    /\ reply = NoReply
    /\ ScriptsAbsent

\* what the concurrent clock view leaves alone
throttleFrame == <<rnd, delay, recorded, serialized, scripts, twin, reply, variant, stats, request_count, success_count,
                   challenge_count, access_denied_count, timeout_count,
                   current_strategy_index, current_strategy, pc, max_retries,
                   attempt, strategy, response, exc, outcome, result,
                   calls_made, snap>>

\* time passes
ThTick(g) ==
    /\ g > 0
    /\ now + g <= MaxThrottleClock
    /\ now' = now + g
    /\ UNCHANGED <<throttleFrame, th, total_calls, last_request_time>>

\* enhanced.py:203-205: the thread reads the clock and last_request_time;
\* below the interval it calls time.sleep(3.0 - time_since_last)
ThEnter(i, m) ==
    /\ th[i].pc = "idle"
    /\ total_calls + m <= MaxThrottleAttempts
    /\ total_calls' = total_calls + m
    /\ LET time_since_last == now - last_request_time
       IN th' = [th EXCEPT ![i] =
                    IF time_since_last < MinInterval(variant)
                    THEN [ThrottleThread EXCEPT
                             !.pc = "wait", !.max_retries = m,
                             !.until = now + (MinInterval(variant)
                                                - time_since_last),
                             !.issued = th[i].issued, !.first = th[i].first]
                    ELSE [ThrottleThread EXCEPT
                             !.pc = "for", !.max_retries = m,
                             !.issued = th[i].issued, !.first = th[i].first]]
    /\ UNCHANGED <<throttleFrame, now, last_request_time>>

\* enhanced.py:205, 732: time.sleep returns, not before the time asked for
ThWake(i) ==
    /\ th[i].pc \in {"wait", "sleep"}
    /\ now >= th[i].until
    /\ th' = [th EXCEPT ![i].pc = "for", ![i].until = 0]
    /\ UNCHANGED <<throttleFrame, now, total_calls, last_request_time>>

\* enhanced.py:209, 702: the next attempt; its upstream call is issued
ThIssue(i) ==
    /\ th[i].pc = "for"
    /\ th[i].attempt < th[i].max_retries
    /\ th' = [th EXCEPT ![i].pc = "send",
                        ![i].attempt = th[i].attempt + 1,
                        ![i].issued = (th[i].attempt = 0) \/ th[i].issued,
                        ![i].first = IF th[i].attempt = 0
                                     THEN now ELSE th[i].first]
    /\ UNCHANGED <<throttleFrame, now, total_calls, last_request_time>>

\* enhanced.py:800-805: no attempt is left
ThExhausted(i) ==
    /\ th[i].pc = "for"
    /\ th[i].attempt >= th[i].max_retries
    /\ th' = [th EXCEPT ![i].pc = "idle"]
    /\ UNCHANGED <<throttleFrame, now, total_calls, last_request_time>>

\* enhanced.py:702-733: the upstream call ends in o; a response sets
\* last_request_time; the call returns or sleeps before the next attempt
ThPost(i, o) ==
    /\ th[i].pc = "send"
    /\ last_request_time' = IF o = "raise" THEN last_request_time ELSE now
    /\ \/ /\ \/ o = "ok"
             \/ th[i].attempt >= th[i].max_retries
             \/ variant = "service" /\ o = "httperror"
          /\ th' = [th EXCEPT ![i].pc = "idle"]
       \/ /\ o # "ok"
          /\ th[i].attempt < th[i].max_retries
          /\ ~(variant = "service" /\ o = "httperror")
          /\ \E d \in RetrySleeps :
                th' = [th EXCEPT ![i].pc = "sleep", ![i].until = now + d]
    /\ UNCHANGED <<throttleFrame, now, total_calls>>

ThrottleNext ==
    \/ \E g \in IdleGaps : ThTick(g)
    \/ \E i \in Threads : \E m \in 0..MaxConcRetries : ThEnter(i, m)
    \/ \E i \in Threads : ThWake(i)
    \/ \E i \in Threads : ThIssue(i)
    \/ \E i \in Threads : ThExhausted(i)
    \/ \E i \in Threads : \E o \in PostOutcomes : ThPost(i, o)

SpecThrottle == ThrottleInit /\ [][ThrottleNext]_vars

(***************************************************************************)
(* Two controllers side by side.  The first is the handler of the process  *)
(* (the fields of the module); the second, `twin`, is a handler            *)
(* constructed anew (__init__, enhanced.py:59-68) into which the           *)
(* per-strategy attempts and successes of the first are copied.  From      *)
(* then on each of the two runs its own sequence of selections and         *)
(* recordings.  random is drawn from between any two steps (the user agent *)
(* of enhanced.py:101, the jitter of 151).                                 *)
(***************************************************************************)
TwinVariants == {"enhanced", "ultimate"}

TwinInit ==
    /\ variant \in TwinVariants
    /\ strategy_success_rates = [s \in Range(Catalog(variant)) |-> 0]
    /\ strategy_attempts = [s \in Range(Catalog(variant)) |-> 0]
    /\ request_count = 0
    /\ success_count = 0
    /\ challenge_count = 0
    /\ access_denied_count = 0
    /\ timeout_count = 0
    /\ consecutive_failures = 0
    /\ current_strategy_index = 0
    /\ current_strategy = 0
    /\ pc = "idle"
    /\ max_retries = 0
    /\ attempt = 0
    /\ strategy = Unbound
    /\ response = NoResponse
    /\ exc = None
    /\ outcome = None
    /\ result = NoResult
    /\ calls_made = 0
    /\ total_calls = 0
    /\ snap = NoSnapshot
    /\ th = [i \in Threads |-> IdleThread]
    /\ delay = 0
    /\ rnd = <<0, 0>>
    /\ now = 0
    /\ last_request_time = 0
    /\ recorded = NothingRecorded(variant)
    /\ serialized = FALSE
    /\ twin = NoTwin
    /\ reply = NoReply
    /\ ScriptsAbsent

\* what the side-by-side view leaves alone
twinFrame == <<th, delay, now, last_request_time, recorded, serialized, scripts, reply,
               variant, counters, current_strategy_index, current_strategy,
               max_retries, attempt, response, exc, outcome, result,
               calls_made, snap>>

\* get_best_strategy / get_ultimate_strategy on the fields of a controller
select_strategy(att, succ, cf, idx) ==
    IF variant = "enhanced"
    THEN get_best_strategy(att, succ, cf, idx)
    ELSE get_ultimate_strategy(att, succ, cf, idx)

\* the three fields after the outcome o of an attempt with strategy s has
\* been recorded: one update_strategy_stats call, or two for a 200 whose
\* body does not decode (enhanced.py:714, 718, 783-785)
record_outcome(att, succ, cf, s, o) ==
    LET first == update_strategy_stats(att, succ, cf, s, o # "fail")
    IN  IF o = "badjson"
        THEN update_strategy_stats(first.attempts, first.successes,
                                   first.consecutive_failures, s, FALSE)
        ELSE first

\* random.choice / random.uniform: the generator moves on
TwDraw(r) ==
    /\ rnd[1] # r
    /\ rnd' = <<r, 0>>
    /\ UNCHANGED <<twinFrame, stats, strategy, pc, total_calls, twin>>

\* enhanced.py:211: the first controller selects
TwSelect ==
    /\ pc \in {"idle", "for"}
    /\ total_calls < MaxTwinAttempts
    /\ strategy' = select_strategy(strategy_attempts, strategy_success_rates,
                                   consecutive_failures,
                                   current_strategy_index)
    /\ total_calls' = total_calls + 1
    /\ pc' = "send"
    /\ UNCHANGED <<twinFrame, stats, rnd, twin>>

\* enhanced.py:714, 727, 747, 766, 785: the first controller records
TwRecord(o) ==
    /\ pc = "send"
    /\ LET new == record_outcome(strategy_attempts, strategy_success_rates,
                                 consecutive_failures, strategy, o)
       IN  /\ strategy_attempts' = new.attempts
           /\ strategy_success_rates' = new.successes
           /\ consecutive_failures' = new.consecutive_failures
    /\ pc' = "for"
    /\ UNCHANGED <<twinFrame, strategy, rnd, total_calls, twin>>

\* enhanced.py:59-68, then the saved dictionaries are put back: a new
\* controller with the attempts and successes of the first one
TwRestore ==
    /\ pc \in {"idle", "for"}
    /\ twin.pc = "absent"
    /\ twin' = [attempts |-> strategy_attempts,
                successes |-> strategy_success_rates,
                consecutive_failures |-> 0,
                current_strategy_index |-> 0,
                strategy |-> Unbound,
                pc |-> "idle", restored |-> TRUE, calls |-> 0]
    /\ UNCHANGED <<twinFrame, stats, strategy, pc, rnd, total_calls>>

\* enhanced.py:211 on the second controller
TwTwinSelect ==
    /\ twin.pc = "idle"
    /\ twin.calls < MaxTwinAttempts
    /\ twin' = [twin EXCEPT
                   !.strategy = select_strategy(twin.attempts, twin.successes,
                                    twin.consecutive_failures,
                                    twin.current_strategy_index),
                   !.pc = "send",
                   !.calls = @ + 1]
    /\ UNCHANGED <<twinFrame, stats, strategy, pc, rnd, total_calls>>

\* enhanced.py:714, 727, 747, 766, 785 on the second controller
TwTwinRecord(o) ==
    /\ twin.pc = "send"
    /\ LET new == record_outcome(twin.attempts, twin.successes,
                                 twin.consecutive_failures, twin.strategy, o)
       IN  twin' = [twin EXCEPT
                       !.attempts = new.attempts,
                       !.successes = new.successes,
                       !.consecutive_failures = new.consecutive_failures,
                       !.pc = "idle",
                       !.restored = FALSE]
    /\ UNCHANGED <<twinFrame, stats, strategy, pc, rnd, total_calls>>

TwinNext ==
    \/ \E r \in {0, RandomSteps} : TwDraw(r)
    \/ TwSelect
    \/ \E o \in ConcResponses : TwRecord(o)
    \/ TwRestore
    \/ TwTwinSelect
    \/ \E o \in ConcResponses : TwTwinRecord(o)

SpecTwin == TwinInit /\ [][TwinNext]_vars

(***************************************************************************)
(* The endpoints.  POST /delta (delta_search) calls make_delta_request     *)
(* with the default max_retries, so with at least one attempt, and builds  *)
(* its answer from the returned dictionary; GET /health (health_check)     *)
(* reports the counters.  One request is served at a time here.  The       *)
(* answer of the last endpoint call is `reply`.  A percentage is rounded   *)
(* down to a whole number.                                                 *)
(***************************************************************************)
EndpointVariants == {"enhanced", "ultimate"}

EndpointInit == Init /\ variant \in EndpointVariants

Max(a, b) == IF a > b THEN a ELSE b

\* a slip: the divisor is the count itself
RateDivisorUnguarded(n) == n

\* max(enhanced_handler.request_count, 1) (enhanced.py:845, 867) and
\* max(enhanced_handler.strategy_attempts[strategy], 1) (enhanced.py:875)
RateDivisor(n) == Max(n, 1)

\* n / d * 100
Percent(n, d) == (n * 100) \div d

\* enhanced.py:841-846: the statistics snapshot of an error answer
handler_stats ==
    [total_requests      |-> request_count,
     success_count       |-> success_count,
     challenge_count     |-> challenge_count,
     access_denied_count |-> access_denied_count,
     success_rate        |-> Percent(success_count,
                                     RateDivisor(request_count))]

\* a slip: every error is answered with status 500
delta_search_always_500(res) ==
    IF res.success
    THEN [kind |-> "data", status |-> 200]
    ELSE [kind   |-> "error",
          status |-> 500,
          body   |-> IF res.status_code # NoStatus
                     THEN "response.text" ELSE res.error,
          debug  |-> [strategy      |-> res.strategy,
                      attempt       |-> res.attempt,
                      handler_stats |-> handler_stats]]

\* enhanced.py:830-849: jsonify(result['data']) with status 200, or the
\* error object with result.get('status_code', 500)
delta_search(res) ==
    IF res.success
    THEN [kind |-> "data", status |-> 200]
    ELSE [kind   |-> "error",
          status |-> IF res.status_code # NoStatus
                     THEN res.status_code ELSE 500,
          body   |-> IF res.status_code # NoStatus
                     THEN "response.text" ELSE res.error,
          debug  |-> [strategy      |-> res.strategy,
                      attempt       |-> res.attempt,
                      handler_stats |-> handler_stats]]

\* enhanced.py:851-855: an exception inside delta_search; also what is
\* answered when a view function raises
ServerError == [kind |-> "server_error", status |-> 500]

\* enhanced.py:860-879
health_check ==
    [kind   |-> "health",
     status |-> 200,
     handler_stats |->
         [total_requests       |-> request_count,
          success_count        |-> success_count,
          challenge_count      |-> challenge_count,
          access_denied_count  |-> access_denied_count,
          success_rate         |-> Percent(success_count,
                                           RateDivisor(request_count)),
          consecutive_failures |-> consecutive_failures],
     strategy_performance |->
         [s \in {x \in Range(Catalog(variant)) : strategy_attempts[x] > 0} |->
             [attempts     |-> strategy_attempts[s],
              successes    |-> strategy_success_rates[s],
              success_rate |-> Percent(strategy_success_rates[s],
                                   RateDivisor(strategy_attempts[s]))]]]

\* the divisors health_check divides by
health_divisors ==
    {RateDivisor(request_count)}
        \cup {RateDivisor(strategy_attempts[s]) :
                s \in {x \in Range(Catalog(variant)) :
                          strategy_attempts[x] > 0}}

\* enhanced.py:811-828: POST /delta arrives and make_delta_request is
\* entered with the default max_retries
DeltaSearchCalls(m) ==
    /\ pc = "idle"
    /\ m >= 1
    /\ total_calls + m <= MaxEndpointAttempts
    /\ StartCall(m)

\* enhanced.py:830-855: make_delta_request has returned (or raised) and
\* the answer is sent
DeltaSearchReturns ==
    /\ pc \in {"returned", "raised"}
    /\ reply' = IF pc = "raised" \/ (~result.success
                                     /\ RateDivisor(request_count) = 0)
                THEN ServerError
                ELSE delta_search(result)
    /\ pc' = "idle"
    /\ UNCHANGED <<th, delay, rnd, now, last_request_time, recorded,
                   serialized, scripts, twin, variant, stats, counters,
                   current_strategy_index, current_strategy, max_retries,
                   attempt, strategy, response, exc, outcome, result,
                   calls_made, total_calls, snap>>

\* enhanced.py:857-879: GET /health between two POST /delta
HealthCheck ==
    /\ pc = "idle"
    /\ reply' = IF 0 \in health_divisors THEN ServerError ELSE health_check
    /\ UNCHANGED <<th, delay, rnd, now, last_request_time, recorded,
                   serialized, scripts, twin, variant, stats, counters,
                   current_strategy_index, current_strategy, pc, max_retries,
                   attempt, strategy, response, exc, outcome, result,
                   calls_made, total_calls, snap>>

EndpointNext ==
    \/ \E m \in 1..MaxRetries : DeltaSearchCalls(m)
    \/ ForNext
    \/ \E r \in Responses : SendRequest(r)
    \/ \E e \in TransportErrors : SendRaises(e)
    \/ OnSuccess
    \/ ReturnSuccess
    \/ JsonRaises
    \/ OnChallenge
    \/ OnAccessDenied
    \/ OnOtherError
    \/ OnException
    \/ Sleep
    \/ DeltaSearchReturns
    \/ HealthCheck

SpecEndpoint == EndpointInit /\ [][EndpointNext]_vars

(***************************************************************************)
(* Progress of one call.  requests.post is given timeout=30                *)
(* (enhanced.py:702-708), so an upstream call comes back with a response   *)
(* or raises; time.sleep is given a finite number of seconds; the          *)
(* statements between them are straight-line code.  A call that is running *)
(* therefore keeps taking steps.  Nothing obliges a caller to start        *)
(* another call.                                                           *)
(***************************************************************************)
UpstreamAnswers ==
    \/ \E r \in Responses : SendRequest(r)
    \/ \E e \in TransportErrors : SendRaises(e)

\* ENABLED <<ForNext>>_vars: the selection always returns a strategy, so
\* the step is possible whenever the for statement has a number left
ForNextEnabled ==
    /\ variant \in StatVariants
    /\ pc = "for"
    /\ attempt < max_retries

\* WF_vars(ForNext), written out with the enabling condition above
ForNextFair == []<>(~ForNextEnabled) \/ []<><<ForNext>>_vars

HandlerSteps ==
    \/ ForExhausted
    \/ OnSuccess
    \/ ReturnSuccess
    \/ JsonRaises
    \/ OnChallenge
    \/ OnAccessDenied
    \/ OnOtherError
    \/ OnException
    \/ SvcForNext
    \/ SvcOnSuccess
    \/ SvcOnChallenge
    \/ SvcOnOtherError
    \/ SvcOnException

\* the calls a caller makes
LiveStartCall(m) ==
    /\ request_count < MaxLiveCalls
    /\ total_calls + m <= MaxLiveAttempts
    /\ StartCall(m)

LiveSvcStartCall(m) ==
    /\ request_count < MaxLiveCalls
    /\ total_calls + m <= MaxLiveAttempts
    /\ SvcStartCall(m)

LiveNext ==
    \/ \E m \in 0..MaxRetries : LiveStartCall(m)
    \/ \E m \in 0..MaxRetries : LiveSvcStartCall(m)
    \/ ForNext
    \/ UpstreamAnswers
    \/ Sleep
    \/ HandlerSteps

SpecLive ==
    /\ Init
    /\ [][LiveNext]_vars
    /\ ForNextFair
    /\ WF_vars(UpstreamAnswers)
    /\ WF_vars(Sleep)
    /\ WF_vars(HandlerSteps)

(***************************************************************************)
(* The selection of UltimateDeltaHandler on its own: the handler is in any *)
(* state of its statistics in which no strategy has more successes than    *)
(* attempts, a backup strategy has been tried only after every ultimate    *)
(* strategy (the selection reaches a backup strategy through the           *)
(* least-used rule, which takes the first strategy of the catalog with the *)
(* fewest attempts), and consecutive_failures is at most the number of     *)
(* failures recorded.  The next attempt selects its strategy and records   *)
(* its outcome.                                                            *)
(***************************************************************************)
\* a dictionary over the catalog from the counters of the five strategies
PickCounters(c131, c136, c184, c135, c260) ==
    [s \in Range(ULTIMATE_ALL_STRATEGIES) |->
        CASE s = "chrome131"  -> c131
          [] s = "chrome136"  -> c136
          [] s = "safari184"  -> c184
          [] s = "firefox135" -> c135
          [] s = "safari260"  -> c260
          [] OTHER            -> 0]

PickInit ==
    /\ variant = "ultimate"
    /\ \E a131, a136, a260 \in 0..MaxPickStat, a184, a135 \in 0..1 :
       \E s131 \in 0..a131, s136 \in 0..a136, s260 \in 0..a260 :
          /\ a260 > 0 => a131 > 0 /\ a136 > 0 /\ a184 > 0 /\ a135 > 0
          /\ strategy_attempts = PickCounters(a131, a136, a184, a135, a260)
          /\ strategy_success_rates = PickCounters(s131, s136, 0, 0, s260)
          /\ consecutive_failures \in 0..MaxPickFailures
          /\ consecutive_failures
                 <= (a131 - s131) + (a136 - s136) + a184 + a135 + (a260 - s260)
    /\ request_count = 0
    /\ success_count = 0
    /\ challenge_count = 0
    /\ access_denied_count = 0
    /\ timeout_count = 0
    /\ current_strategy_index = 0
    /\ current_strategy = 0
    /\ pc = "for"
    /\ max_retries = 1
    /\ attempt = 0
    /\ strategy = Unbound
    /\ response = NoResponse
    /\ exc = None
    /\ outcome = None
    /\ result = NoResult
    /\ calls_made = 0
    /\ total_calls = 0
    /\ snap = NoSnapshot
    /\ th = [i \in Threads |-> IdleThread]
    /\ delay = 0
    /\ rnd = <<0, 0>>
    /\ now = 0
    /\ last_request_time = 0
    /\ recorded = NothingRecorded(variant)
    /\ serialized = FALSE
    /\ twin = NoTwin
    /\ reply = NoReply
    /\ ScriptsAbsent

\* ultimate.py:220-222: strategy = self.get_ultimate_strategy()
PickSelect ==
    /\ pc = "for"
    /\ attempt = 0
    /\ strategy' = get_ultimate_strategy(strategy_attempts,
                       strategy_success_rates, consecutive_failures,
                       current_strategy_index)
    /\ attempt' = 1
    /\ pc' = "send"
    /\ UNCHANGED <<elsewhere, variant, stats, counters, current_strategy_index,
                   current_strategy, max_retries, response, exc, outcome,
                   result, calls_made, total_calls, snap>>

\* ultimate.py:197-204: the outcome of the attempt is recorded
PickRecord(success) ==
    /\ pc = "send"
    /\ UpdateStats(success)
    /\ pc' = "for"
    /\ UNCHANGED <<loopFrame, strategy, total_calls>>

PickNext ==
    \/ PickSelect
    \/ \E success \in BOOLEAN : PickRecord(success)

SpecPick == PickInit /\ [][PickNext]_vars

(***************************************************************************)
(* A fresh EnhancedDeltaHandler whose upstream fails every attempt: each   *)
(* selection is followed by the recording of a failure, either one         *)
(* update_strategy_stats(strategy, False) (challenge, 444, other status,   *)
(* exception of requests.post) or, for a status 200 whose body does not    *)
(* decode, update_strategy_stats(strategy, True) followed by               *)
(* update_strategy_stats(strategy, False) (enhanced.py:714, 718, 783-785). *)
(***************************************************************************)
ExploreInit == Init /\ variant = "enhanced"

\* enhanced.py:211: strategy = self.get_best_strategy()
ExploreSelect ==
    /\ pc \in {"idle", "for"}
    /\ total_calls < MaxExploreAttempts
    /\ strategy' = get_best_strategy(strategy_attempts, strategy_success_rates,
                                     consecutive_failures,
                                     current_strategy_index)
    /\ total_calls' = total_calls + 1
    /\ pc' = "send"
    /\ UNCHANGED <<loopFrame, stats>>

ExploreNext ==
    \/ ExploreSelect
    \/ LoopRecord(FALSE)
    \/ LoopRecordDecodeFailure

SpecExplore == ExploreInit /\ [][ExploreNext]_vars

(***************************************************************************)
(* The rotation of DeltaChallengeHandler in a service that has been        *)
(* running: every call advances current_strategy (service.py:139), so the  *)
(* calls served so far have left the index at any position of the          *)
(* catalog.                                                                *)
(***************************************************************************)
RotateInit ==
    /\ variant = "service"
    /\ current_strategy \in 0..(Len(BROWSER_STRATEGIES) - 1)
    /\ strategy_success_rates = <<>>
    /\ strategy_attempts = <<>>
    /\ request_count = 0
    /\ success_count = 0
    /\ challenge_count = 0
    /\ access_denied_count = 0
    /\ timeout_count = 0
    /\ consecutive_failures = 0
    /\ current_strategy_index = 0
    /\ pc = "idle"
    /\ max_retries = 0
    /\ attempt = 0
    /\ strategy = Unbound
    /\ response = NoResponse
    /\ exc = None
    /\ outcome = None
    /\ result = NoResult
    /\ calls_made = 0
    /\ total_calls = 0
    /\ snap = NoSnapshot
    /\ th = [i \in Threads |-> IdleThread]
    /\ delay = 0
    /\ rnd = <<0, 0>>
    /\ now = 0
    /\ last_request_time = 0
    /\ recorded = NothingRecorded(variant)
    /\ serialized = FALSE
    /\ twin = NoTwin
    /\ reply = NoReply
    /\ ScriptsAbsent

RotateNext ==
    \/ \E m \in 0..MaxRetries : SvcStartCall(m)
    \/ SvcForNext
    \/ ForExhausted
    \/ \E r \in Responses : SendRequest(r)
    \/ \E e \in TransportErrors : SendRaises(e)
    \/ SvcOnSuccess
    \/ ReturnSuccess
    \/ JsonRaises
    \/ SvcOnChallenge
    \/ SvcOnOtherError
    \/ SvcOnException
    \/ Sleep

SpecRotate == RotateInit /\ [][RotateNext]_vars

(***************************************************************************)
(* The other programs of the repository.  In their views the Delta         *)
(* handler is a fresh DeltaChallengeHandler that is never called.          *)
(***************************************************************************)
HandlerUnused ==
    /\ variant = "service"
    /\ current_strategy = 0
    /\ strategy_success_rates = <<>>
    /\ strategy_attempts = <<>>
    /\ request_count = 0
    /\ success_count = 0
    /\ challenge_count = 0
    /\ access_denied_count = 0
    /\ timeout_count = 0
    /\ consecutive_failures = 0
    /\ current_strategy_index = 0
    /\ pc = "idle"
    /\ max_retries = 0
    /\ attempt = 0
    /\ strategy = Unbound
    /\ response = NoResponse
    /\ exc = None
    /\ outcome = None
    /\ result = NoResult
    /\ calls_made = 0
    /\ total_calls = 0
    /\ snap = NoSnapshot
    /\ th = [i \in Threads |-> IdleThread]
    /\ delay = 0
    /\ rnd = <<0, 0>>
    /\ now = 0
    /\ last_request_time = 0
    /\ recorded = NothingRecorded(variant)
    /\ serialized = FALSE
    /\ twin = NoTwin
    /\ reply = NoReply

handler == <<variant, stats, counters, current_strategy_index,
             current_strategy, pc, max_retries, attempt, strategy, response,
             exc, outcome, result, calls_made, total_calls, snap, th, delay,
             rnd, now, last_request_time, recorded, serialized, twin, reply>>

(***************************************************************************)
(* FlightRadar24AirportAPI: the token rotation under the page workers.     *)
(* _fetch_airport_pages submits _fetch_page_with_retry to a thread pool    *)
(* (flightradar_airport_api.py:387-401); every attempt of a worker calls   *)
(* _get_next_token, which reads and writes current_token_index without a   *)
(* lock.  The subscript reads the index, the assignment reads it again     *)
(* and writes it: three steps, between which the other workers run.        *)
(* available_tokens is assigned in __init__ only.                          *)
(***************************************************************************)
Workers == {"w1", "w2", "w3"}

Tokens == <<"tokenA", "tokenB", "tokenC", "tokenD">>

\* flightradar_airport_api.py:197-230: the list _load_tokens returns
TokenLists == {SubSeq(Tokens, 1, n) : n \in 0..MaxTokens}

IdleWorker == [pc |-> "for", attempt |-> 0, index |-> 0, token |-> None]

\* a slip: the index is advanced without the modulo
next_token_index_unbounded(index, tokens) == index + 1

\* flightradar_airport_api.py:238: the index written back
next_token_index(index, tokens) == (index + 1) % Len(tokens)

\* flightradar_airport_api.py:109-110
TokenInit ==
    /\ HandlerUnused
    /\ \E tokens \in TokenLists :
          airport_api = [available_tokens |-> tokens,
                         current_token_index |-> 0,
                         workers |-> [w \in Workers |-> IdleWorker]]
    /\ flights_api = NotRunning
    /\ cx_scraper = NotRunning
    /\ persistent_browser = NotRunning

tokenFrame == <<handler, flights_api, cx_scraper, persistent_browser>>

\* flightradar_airport_api.py:283-285: the next attempt of the worker
\* begins and _get_next_token is entered (max_retries attempts at most,
\* MaxFetchAttempts here)
WForNext(w) ==
    /\ airport_api.workers[w].pc = "for"
    /\ airport_api.workers[w].attempt < MaxFetchAttempts
    /\ airport_api' = [airport_api EXCEPT
                          !.workers[w].attempt = @ + 1,
                          !.workers[w].token = None,
                          !.workers[w].pc = "check"]
    /\ UNCHANGED tokenFrame

\* flightradar_airport_api.py:234-235: if not self.available_tokens:
\* return None
WCheck(w) ==
    /\ airport_api.workers[w].pc = "check"
    /\ airport_api' = [airport_api EXCEPT
                          !.workers[w].pc =
                              IF airport_api.available_tokens = <<>>
                              THEN "get" ELSE "subscript"]
    /\ UNCHANGED tokenFrame

\* flightradar_airport_api.py:237
WSubscript(w) ==
    /\ airport_api.workers[w].pc = "subscript"
    /\ airport_api' = [airport_api EXCEPT
                          !.workers[w].token =
                              airport_api.available_tokens[
                                  airport_api.current_token_index + 1],
                          !.workers[w].pc = "load"]
    /\ UNCHANGED tokenFrame

\* flightradar_airport_api.py:238, the read of self.current_token_index
WLoad(w) ==
    /\ airport_api.workers[w].pc = "load"
    /\ airport_api' = [airport_api EXCEPT
                          !.workers[w].index = airport_api.current_token_index,
                          !.workers[w].pc = "store"]
    /\ UNCHANGED tokenFrame

\* flightradar_airport_api.py:238-239, the write; the token is returned
WStore(w) ==
    /\ airport_api.workers[w].pc = "store"
    /\ airport_api' = [airport_api EXCEPT
                          !.current_token_index =
                              next_token_index(airport_api.workers[w].index,
                                               airport_api.available_tokens),
                          !.workers[w].index = 0,
                          !.workers[w].pc = "get"]
    /\ UNCHANGED tokenFrame

\* flightradar_airport_api.py:300-358: the page request returns data, or it
\* raises and the worker retries or gives up
WGet(w, ok) ==
    /\ airport_api.workers[w].pc = "get"
    /\ airport_api' = [airport_api EXCEPT
                          !.workers[w].pc =
                              IF ok \/ airport_api.workers[w].attempt
                                           >= MaxFetchAttempts
                              THEN "done" ELSE "for"]
    /\ UNCHANGED tokenFrame

TokenNext ==
    \E w \in Workers :
        \/ WForNext(w)
        \/ WCheck(w)
        \/ WSubscript(w)
        \/ WLoad(w)
        \/ WStore(w)
        \/ \E ok \in BOOLEAN : WGet(w, ok)

SpecTokens == TokenInit /\ [][TokenNext]_vars

(***************************************************************************)
(* FlightRadar24API.get_flights: the while loop.  current_timestamp is     *)
(* kept as days_ago, the number of days between its date and today         *)
(* (negative when it lies after today); a date is the number of days it    *)
(* lies before today.  An optional date is an empty or a one-element       *)
(* sequence.  Of a page the loop uses: whether it holds valid flights,     *)
(* the oldest scheduled departure among them, whether a flight is new to   *)
(* all_results, and whether item.current < 90.  The upstream decides all   *)
(* of these.                                                               *)
(***************************************************************************)
\* flightradar_api.py:258: if days_ago > 360
DaysLimit == 360

\* flightradar_api.py:251: max_retries = 3
MaxRetries402 == 3

\* flightradar_api.py:297, 369, 403: current_timestamp -= 45 * 86400
NoDataStep == 45

\* flightradar_api.py:441: current_timestamp -= 30 * 86400
ErrorStep == 30

\* flightradar_api.py:229-240: the stop_date argument
StopDates == {<<>>, <<120>>}

\* the oldest scheduled departure of a page asked for at days_ago: 16 days
\* or 1 day after the timestamp, 14 or 89 days before it
PageOldest(days_ago) ==
    {o \in {days_ago - 16, days_ago - 1, days_ago + 14, days_ago + 89} :
        o + 1 >= 0 - MaxAheadDays}

\* flightradar_api.py:355-356, 377-379: the earliest date seen so far
EarlierOf(earliest_date, date) ==
    IF earliest_date = <<>> \/ date > earliest_date[1]
    THEN <<date>> ELSE earliest_date

\* flightradar_api.py:407-418: the loop stops on the earliest date
EarliestStops(earliest_date, stop_date) ==
    /\ earliest_date # <<>>
    /\ IF stop_date # <<>>
       THEN earliest_date[1] >= stop_date[1]
       ELSE earliest_date[1] > DaysLimit

\* flightradar_api.py:227-251: the state the loop is entered in
FlightsInit ==
    /\ HandlerUnused
    /\ airport_api = NotRunning
    /\ \E stop_date \in StopDates :
          flights_api = [pc |-> "while", days_ago |-> 0, retry_count |-> 0,
                         earliest_date |-> <<>>, stop_date |-> stop_date]
    /\ cx_scraper = NotRunning
    /\ persistent_browser = NotRunning

flightsFrame == <<handler, airport_api, cx_scraper, persistent_browser>>

\* flightradar_api.py:253-258: the test at the head of the loop
FWhile ==
    /\ flights_api.pc = "while"
    /\ flights_api' = [flights_api EXCEPT
                          !.pc = IF flights_api.days_ago > DaysLimit
                                 THEN "done" ELSE "request"]
    /\ UNCHANGED flightsFrame

\* flightradar_api.py:428-435: 402 Payment Required, retried with the same
\* timestamp
FRetry402 ==
    /\ flights_api.pc = "request"
    /\ flights_api.retry_count < MaxRetries402
    /\ flights_api' = [flights_api EXCEPT !.retry_count = @ + 1,
                                          !.pc = "while"]
    /\ UNCHANGED flightsFrame

\* flightradar_api.py:437-442: a 402 after max_retries
FGiveUp402 ==
    /\ flights_api.pc = "request"
    /\ flights_api.retry_count >= MaxRetries402
    /\ flights_api' = [flights_api EXCEPT !.days_ago = @ + ErrorStep,
                                          !.pc = "while"]
    /\ UNCHANGED flightsFrame

\* flightradar_api.py:437-442: any other exception, raised by the request
\* or, after retry_count was reset (line 291), by the handling of the page
FOtherError(reset) ==
    /\ flights_api.pc = "request"
    /\ flights_api' = [flights_api EXCEPT
                          !.days_ago = @ + ErrorStep,
                          !.retry_count = IF reset THEN 0 ELSE @,
                          !.pc = "while"]
    /\ UNCHANGED flightsFrame

\* flightradar_api.py:291-298, 366-370: a response without flight data or
\* without a valid flight
FNoData ==
    /\ flights_api.pc = "request"
    /\ flights_api' = [flights_api EXCEPT !.days_ago = @ + NoDataStep,
                                          !.retry_count = 0,
                                          !.pc = "while"]
    /\ UNCHANGED flightsFrame

\* flightradar_api.py:291, 300-421: a page with valid flights
FPage(oldest, new_flights, is_last_page) ==
    /\ flights_api.pc = "request"
    /\ oldest \in PageOldest(flights_api.days_ago)
    /\ LET earliest_date == EarlierOf(flights_api.earliest_date, oldest)
       IN  flights_api' =
               [flights_api EXCEPT
                   !.retry_count = 0,
                   !.earliest_date = earliest_date,
                   !.days_ago = IF new_flights THEN oldest + 1
                                ELSE @ + NoDataStep,
                   !.pc = IF is_last_page
                             \/ EarliestStops(earliest_date,
                                              flights_api.stop_date)
                          THEN "done" ELSE "while"]
    /\ UNCHANGED flightsFrame

FlightsNext ==
    \/ FWhile
    \/ FRetry402
    \/ FGiveUp402
    \/ \E reset \in BOOLEAN : FOtherError(reset)
    \/ FNoData
    \/ \E oldest \in PageOldest(flights_api.days_ago) :
       \E new_flights, is_last_page \in BOOLEAN :
          FPage(oldest, new_flights, is_last_page)

\* every request comes back and the loop goes on
SpecFlights == FlightsInit /\ [][FlightsNext]_vars /\ WF_vars(FlightsNext)

(***************************************************************************)
(* cx_availability_scraper.py: CXAvailabilityScraper.run_scraper.  The run *)
(* truncates the cx table, submits one availability query per request to a *)
(* thread pool, collects the results as they complete, and uploads the     *)
(* collected records in batches.  cx_scraper.futures holds the state of    *)
(* each submitted query, cx_scraper.all_processed_data the number of       *)
(* records collected, cx_scraper.i the offset of the next batch,           *)
(* cx_scraper.deletes and cx_scraper.inserts the delete and insert calls   *)
(* made on the cx table.                                                   *)
(***************************************************************************)
\* cx_availability_scraper.py:187: batch_size = 100
batch_size == 100

\* records that process_availability_data yields for one answer
RecordCounts == {0, 60, 150}

\* cx_availability_scraper.py:77-100: what query_cx_api_sync returns, with the
\* number of records its data holds: a 200 answer, another status, a request
\* or JSON error
QueryResults ==
    {[status_code |-> 200, records |-> r] : r \in RecordCounts}
        \cup {[status_code |-> 403, records |-> 0],
              [status_code |-> 0, records |-> 0]}

Submitted == [state |-> "submitted", status_code |-> 0, records |-> 0]

CxInit ==
    /\ HandlerUnused
    /\ airport_api = NotRunning
    /\ flights_api = NotRunning
    /\ cx_scraper = [pc |-> "truncate", truncated |-> "unknown",
                     deletes |-> 0, futures |-> <<>>, completed_requests |-> 0,
                     all_processed_data |-> 0, i |-> 0, inserts |-> 0]
    /\ persistent_browser = NotRunning

cxFrame == <<handler, airport_api, flights_api, persistent_browser>>

\* the mutated form of as_completed_exhausted: the loop is left at the first
\* completed query
as_completed_first(futures) ==
    \E f \in 1..Len(futures) : futures[f].state = "collected"

\* cx_availability_scraper.py:244-253: the loop over as_completed ends, and
\* the with block of the pool is left, when every submitted query has
\* completed and has been handled
as_completed_exhausted(futures) ==
    \A f \in 1..Len(futures) : futures[f].state = "collected"

\* queries that a thread of the pool is running
RunningQueries(futures) ==
    {f \in 1..Len(futures) : futures[f].state = "running"}

\* cx_availability_scraper.py:148-156: truncate_cx_table, the delete of all
\* rows; an exception leads to the alternative method
CxTruncate(ok) ==
    /\ cx_scraper.pc = "truncate"
    /\ cx_scraper' = [cx_scraper EXCEPT
                         !.deletes = @ + 1,
                         !.truncated = IF ok THEN "yes" ELSE @,
                         !.pc = IF ok THEN "routes" ELSE "truncate_alt"]
    /\ UNCHANGED cxFrame

\* cx_availability_scraper.py:157-177 and 204-207: the alternative method
\* (select the ids, delete them in batches); when it raises too,
\* truncate_cx_table returns False and run_scraper returns
CxTruncateAlt(ok, batches) ==
    /\ cx_scraper.pc = "truncate_alt"
    /\ cx_scraper' = [cx_scraper EXCEPT
                         !.deletes = @ + batches,
                         !.truncated = IF ok THEN "yes" ELSE "no",
                         !.pc = IF ok THEN "routes" ELSE "done"]
    /\ UNCHANGED cxFrame

\* cx_availability_scraper.py:209-249: get_cx_routes, the list of requests
\* (never empty: the hard-coded combinations are always in it), and the
\* submission of every request to the pool
CxSubmit(n) ==
    /\ cx_scraper.pc = "routes"
    /\ cx_scraper' = [cx_scraper EXCEPT
                         !.futures = [f \in 1..n |-> Submitted],
                         !.pc = "pool"]
    /\ UNCHANGED cxFrame

\* cx_availability_scraper.py:220-222: a route without 'Origin' or
\* 'Destination' raises out of run_scraper
CxRoutesRaises ==
    /\ cx_scraper.pc = "routes"
    /\ cx_scraper' = [cx_scraper EXCEPT !.pc = "raised"]
    /\ UNCHANGED cxFrame

\* cx_availability_scraper.py:77-85: a free thread of the pool starts a query
CxQueryStart(f) ==
    /\ cx_scraper.pc = "pool"
    /\ cx_scraper.futures[f].state = "submitted"
    /\ Cardinality(RunningQueries(cx_scraper.futures)) < MaxPoolWorkers
    /\ cx_scraper' = [cx_scraper EXCEPT !.futures[f].state = "running"]
    /\ UNCHANGED cxFrame

\* cx_availability_scraper.py:85-100: the query returns
CxQueryReturn(f, r) ==
    /\ cx_scraper.pc = "pool"
    /\ cx_scraper.futures[f].state = "running"
    /\ cx_scraper' = [cx_scraper EXCEPT
                         !.futures[f] = [state |-> "finished",
                                          status_code |-> r.status_code,
                                          records |-> r.records]]
    /\ UNCHANGED cxFrame

\* cx_availability_scraper.py:251-279: one turn of the loop over
\* as_completed; the records of a 200 answer with data are added, unless
\* processing them raises (caught at 274)
CxCollect(f, raises) ==
    /\ cx_scraper.pc = "pool"
    /\ cx_scraper.futures[f].state = "finished"
    /\ cx_scraper' = [cx_scraper EXCEPT
                         !.futures[f].state = "collected",
                         !.completed_requests = @ + 1,
                         !.all_processed_data =
                             IF /\ ~raises
                                /\ cx_scraper.futures[f].status_code = 200
                             THEN @ + cx_scraper.futures[f].records
                             ELSE @]
    /\ UNCHANGED cxFrame

\* cx_availability_scraper.py:281-301: the pool is left, the summary printed,
\* and the upload entered when there is data
CxLeavePool ==
    /\ cx_scraper.pc = "pool"
    /\ as_completed_exhausted(cx_scraper.futures)
    /\ cx_scraper' = [cx_scraper EXCEPT
                         !.pc = IF cx_scraper.all_processed_data > 0
                                THEN "upload" ELSE "done"]
    /\ UNCHANGED cxFrame

\* cx_availability_scraper.py:179-197: upload_to_supabase inserts one batch;
\* an exception ends the upload
CxInsert(ok) ==
    /\ cx_scraper.pc = "upload"
    /\ cx_scraper' = [cx_scraper EXCEPT
                         !.inserts = @ + 1,
                         !.i = IF ok THEN @ + batch_size ELSE @,
                         !.pc = IF ok /\ cx_scraper.i + batch_size
                                           < cx_scraper.all_processed_data
                                THEN "upload" ELSE "done"]
    /\ UNCHANGED cxFrame

CxNext ==
    \/ \E ok \in BOOLEAN : CxTruncate(ok)
    \/ \E ok \in BOOLEAN, batches \in 0..1 : CxTruncateAlt(ok, batches)
    \/ \E n \in 1..MaxQueries : CxSubmit(n)
    \/ CxRoutesRaises
    \/ \E f \in 1..Len(cx_scraper.futures) : CxQueryStart(f)
    \/ \E f \in 1..Len(cx_scraper.futures), r \in QueryResults :
          CxQueryReturn(f, r)
    \/ \E f \in 1..Len(cx_scraper.futures), raises \in BOOLEAN :
          CxCollect(f, raises)
    \/ CxLeavePool
    \/ \E ok \in BOOLEAN : CxInsert(ok)

SpecScraper == CxInit /\ [][CxNext]_vars

(***************************************************************************)
(* delta-microservice/delta_browser_fetch.py: run_persistent_browser.  The *)
(* script starts a browser, then reads its standard input line by line and *)
(* prints one RESPONSE_START...RESPONSE_END frame per request.             *)
(* persistent_browser.stdin is the input, persistent_browser.line the      *)
(* number of the line being processed, persistent_browser.stdout the       *)
(* frames printed, each with the number of the line it answers.            *)
(***************************************************************************)
\* the lines the input is made of: empty, white space, text that is not
\* JSON, JSON that is not an object, an object without url, with a null url,
\* with an empty url, and two requests with a url
Lines ==
    {"", "  ", "{oops", "[1]", "{}", "{url:null}", "{url:''}", "{url:'a'}",
     " {url:'b'} "}

\* the mutated form of strip: white space is kept
keep_whitespace(line) == line

\* delta_browser_fetch.py:106: line.strip()
strip(line) ==
    CASE line = "  " -> ""
      [] line = " {url:'b'} " -> "{url:'b'}"
      [] OTHER -> line

NotJson == [type |-> "error", url |-> None]

\* delta_browser_fetch.py:110: json.loads(line), NotJson when it raises
json_loads(line) ==
    CASE line = "[1]" -> [type |-> "list", url |-> None]
      [] line = "{}" -> [type |-> "dict", url |-> None]
      [] line = "{url:null}" -> [type |-> "dict", url |-> None]
      [] line = "{url:''}" -> [type |-> "dict", url |-> ""]
      [] line = "{url:'a'}" -> [type |-> "dict", url |-> "a"]
      [] line = "{url:'b'}" -> [type |-> "dict", url |-> "b"]
      [] OTHER -> NotJson

\* delta_browser_fetch.py:115: not url
Falsy(url) == url \in {None, ""}

\* delta_browser_fetch.py:142-183: the status of what execute_fetch_request
\* returns: that of the answer, or 500 for a fetch or script error
FetchStatuses == {200, 429, 500}

Inputs == UNION {[1..n -> Lines] : n \in 0..MaxLines}

BrowserInit ==
    /\ HandlerUnused
    /\ airport_api = NotRunning
    /\ flights_api = NotRunning
    /\ cx_scraper = NotRunning
    /\ \E input \in Inputs :
          persistent_browser = [pc |-> "startup", stdin |-> input, line |-> 0,
                                stripped |-> "", stdout |-> <<>>]

browserFrame == <<handler, airport_api, flights_api, cx_scraper>>

Frame(n, status, error) == [line |-> n, status |-> status, error |-> error]

\* delta_browser_fetch.py:82-101 and 132-134: the browser starts and loads
\* the main page, or the script exits with status 1
PbStartup(ok) ==
    /\ persistent_browser.pc = "startup"
    /\ persistent_browser' = [persistent_browser EXCEPT
                                 !.pc = IF ok THEN "for" ELSE "exit"]
    /\ UNCHANGED browserFrame

\* delta_browser_fetch.py:104-106: for line in sys.stdin, and the strip of
\* the line read
PbForLine ==
    /\ persistent_browser.pc = "for"
    /\ persistent_browser.line < Len(persistent_browser.stdin)
    /\ persistent_browser' =
           [persistent_browser EXCEPT
               !.line = @ + 1,
               !.stripped = strip(persistent_browser.stdin[
                                      persistent_browser.line + 1]),
               !.pc = "line"]
    /\ UNCHANGED browserFrame

\* delta_browser_fetch.py:104 and 135-139: the input is exhausted and the
\* browser quit
PbEndOfInput ==
    /\ persistent_browser.pc = "for"
    /\ persistent_browser.line = Len(persistent_browser.stdin)
    /\ persistent_browser' = [persistent_browser EXCEPT !.pc = "done"]
    /\ UNCHANGED browserFrame

\* delta_browser_fetch.py:107-108: an empty line is passed over
PbBlank ==
    /\ persistent_browser.pc = "line"
    /\ persistent_browser.stripped = ""
    /\ persistent_browser' = [persistent_browser EXCEPT !.pc = "for"]
    /\ UNCHANGED browserFrame

\* delta_browser_fetch.py:110-113 and 124-131: json.loads raises, or the
\* value parsed is no object and its get raises; an error frame is printed
PbRaises ==
    /\ persistent_browser.pc = "line"
    /\ persistent_browser.stripped # ""
    /\ json_loads(persistent_browser.stripped).type # "dict"
    /\ persistent_browser' =
           [persistent_browser EXCEPT
               !.stdout = Append(@, Frame(persistent_browser.line, 500, TRUE)),
               !.pc = "for"]
    /\ UNCHANGED browserFrame

\* delta_browser_fetch.py:115-116: a request without url is passed over
PbNoUrl ==
    /\ persistent_browser.pc = "line"
    /\ persistent_browser.stripped # ""
    /\ json_loads(persistent_browser.stripped).type = "dict"
    /\ Falsy(json_loads(persistent_browser.stripped).url)
    /\ persistent_browser' = [persistent_browser EXCEPT !.pc = "for"]
    /\ UNCHANGED browserFrame

\* delta_browser_fetch.py:118-122: the request is executed and its result
\* printed as a frame
PbRespond(status) ==
    /\ persistent_browser.pc = "line"
    /\ persistent_browser.stripped # ""
    /\ json_loads(persistent_browser.stripped).type = "dict"
    /\ ~Falsy(json_loads(persistent_browser.stripped).url)
    /\ persistent_browser' =
           [persistent_browser EXCEPT
               !.stdout = Append(@, Frame(persistent_browser.line, status,
                                          FALSE)),
               !.pc = "for"]
    /\ UNCHANGED browserFrame

BrowserNext ==
    \/ \E ok \in BOOLEAN : PbStartup(ok)
    \/ PbForLine
    \/ PbEndOfInput
    \/ PbBlank
    \/ PbRaises
    \/ PbNoUrl
    \/ \E status \in FetchStatuses : PbRespond(status)

SpecBrowser == BrowserInit /\ [][BrowserNext]_vars

(***************************************************************************)
(* Properties.                                                             *)
(***************************************************************************)
NonSuccess == {"Challenged", "AccessDenied", "OtherHttpError", "TransportError"}

\* the running attempt has been classified and its outcome recorded
AttemptEnded == outcome # None /\ pc \in {"sleep", "returned", "for"}

\* C1: one make_delta_request call issues at most max_retries upstream
\* calls; once max_retries attempts have been made and the last one is
\* classified non-Success the call has returned, and the failure result it
\* returned carries attempt = max_retries.
C1_AttemptBudget ==
    /\ calls_made <= max_retries
    /\ (AttemptEnded /\ outcome \in NonSuccess /\ calls_made = max_retries)
          => pc = "returned"
    /\ (pc = "returned" /\ max_retries >= 1 /\ calls_made = max_retries)
          => (~result.success => result.attempt = max_retries)

\* C1 witness: the first call of an Enhanced handler, max_retries = 3, all
\* three attempts Challenged, has returned its failure result.
C1_Witness ==
    /\ variant = "enhanced"
    /\ request_count = 1
    /\ max_retries = 3
    /\ challenge_count = 3
    /\ calls_made = 3
    /\ pc = "returned"
    /\ ~result.success
    /\ result.attempt = 3

C3_SuccessResetsFailures ==
    /\ (variant \in StatVariants /\ pc = "build") => consecutive_failures = 0
    /\ (variant \in StatVariants /\ pc = "returned" /\ result.success)
          => consecutive_failures = 0

\* C3 witness: a success recorded by an attempt that began with two or more
\* consecutive failures.
C3_Witness ==
    /\ variant \in {"enhanced", "ultimate"}
    /\ pc = "build"
    /\ snap.consecutive_failures >= 2
    /\ consecutive_failures = 0

\* C4 as stated: every attempt classified non-Success leaves
\* consecutive_failures one above its value when the attempt began, and the
\* counter is never negative.
C4_FailureAddsOne ==
    /\ consecutive_failures >= 0
    /\ (variant \in StatVariants /\ AttemptEnded /\ outcome \in NonSuccess)
          => consecutive_failures = snap.consecutive_failures + 1

FlagIsTrue(b) ==
    b.json = "dict" /\ b.inner = "dict" /\ b.flag \in {"str_true", "bool_true"}

\* the inner body carries the challenge flag as the string "true"
FlagIsStringTrue(b) ==
    b.json = "dict" /\ b.inner = "dict" /\ b.flag = "str_true"

\* the response the running attempt was classified on
Classified == response # NoResponse /\ outcome # None /\ exc = None

C7_RecordFrame ==
    [][(variant \in StatVariants /\ pc = "respond")
          => /\ strategy_attempts' =
                    [strategy_attempts EXCEPT ![strategy] = @ + 1]
             /\ strategy_success_rates' =
                    IF outcome' = "Success"
                    THEN [strategy_success_rates EXCEPT ![strategy] = @ + 1]
                    ELSE strategy_success_rates
             /\ outcome' \in {"Success", "Challenged", "AccessDenied",
                              "OtherHttpError"}]_vars

\* C7 witness: a Challenged outcome has been recorded for one strategy while
\* another strategy has attempts and successes of its own.
C7_Witness ==
    /\ variant \in StatVariants
    /\ AttemptEnded
    /\ outcome = "Challenged"
    /\ strategy_attempts[strategy] = snap.attempts + 1
    /\ \E t \in DOMAIN strategy_attempts :
          t # strategy /\ strategy_success_rates[t] > 0

\* C8 as stated: an attempt whose 200 body fails to decode ends with the
\* used strategy's attempts one higher, its successes and success_count
\* unchanged, and consecutive_failures one higher.
C8_JsonFailureCountsOnce ==
    (/\ variant \in StatVariants
     /\ AttemptEnded
     /\ outcome = "TransportError"
     /\ exc = JsonError)
        => /\ strategy_attempts[strategy] = snap.attempts + 1
           /\ strategy_success_rates[strategy] = snap.successes
           /\ success_count = snap.success_count
           /\ consecutive_failures = snap.consecutive_failures + 1

\* C9: in EnhancedDeltaHandler, with an attempt on record and
\* consecutive_failures > 3, the selected strategy has the least attempts
\* of the catalog and is the first such in catalog order.
C9_ExploreLeastAttempted ==
    (/\ variant = "enhanced"
     /\ pc = "send"
     /\ AnyAttempts(strategy_attempts)
     /\ consecutive_failures > 3)
        => \A t \in Range(ALL_STRATEGIES) :
              /\ strategy_attempts[strategy] <= strategy_attempts[t]
              /\ strategy_attempts[t] = strategy_attempts[strategy]
                    => IndexOf(ALL_STRATEGIES, strategy)
                          <= IndexOf(ALL_STRATEGIES, t)

\* C9 witness: the least-attempted strategy was selected although another
\* strategy has a higher success rate.
C9_Witness ==
    /\ variant = "enhanced"
    /\ pc = "send"
    /\ consecutive_failures > 3
    /\ \E t \in Range(ALL_STRATEGIES) :
          /\ strategy_attempts[t] > strategy_attempts[strategy]
          /\ strategy_success_rates[t] > 0
          /\ strategy_success_rates[strategy] = 0

\* success rate of a above that of b, on the handler's counters
C10_RateAbove(a, b) ==
    LET na == IF strategy_attempts[a] > 0 THEN strategy_success_rates[a] ELSE 0
        da == IF strategy_attempts[a] > 0 THEN strategy_attempts[a] ELSE 1
        nb == IF strategy_attempts[b] > 0 THEN strategy_success_rates[b] ELSE 0
        db == IF strategy_attempts[b] > 0 THEN strategy_attempts[b] ELSE 1
    IN  na * db > nb * da

\* C10: in EnhancedDeltaHandler, with an attempt on record and
\* consecutive_failures <= 3, no strategy has a higher success rate than
\* the selected one, none with the same rate has more attempts, and none
\* with the same rate and attempts comes earlier in the catalog.
C10_BestByRateThenAttempts ==
    (/\ variant = "enhanced"
     /\ pc = "send"
     /\ AnyAttempts(strategy_attempts)
     /\ consecutive_failures <= 3)
        => \A t \in Range(ALL_STRATEGIES) :
              /\ ~C10_RateAbove(t, strategy)
              /\ ~C10_RateAbove(strategy, t)
                    => /\ strategy_attempts[t] <= strategy_attempts[strategy]
                       /\ strategy_attempts[t] = strategy_attempts[strategy]
                             => IndexOf(ALL_STRATEGIES, strategy)
                                   <= IndexOf(ALL_STRATEGIES, t)

\* C10 witness: the selected strategy has the higher success rate although
\* another strategy has more attempts.
C10_Witness ==
    /\ variant = "enhanced"
    /\ pc = "send"
    /\ AnyAttempts(strategy_attempts)
    /\ consecutive_failures <= 3
    /\ \E t \in Range(ALL_STRATEGIES) :
          /\ C10_RateAbove(strategy, t)
          /\ strategy_attempts[t] > strategy_attempts[strategy]

\* C11: with no attempt on record, the strategy selected by
\* EnhancedDeltaHandler is EFFECTIVE_STRATEGIES[0] and the one selected by
\* UltimateDeltaHandler is ULTIMATE_STRATEGIES[0]; there is one possible
\* selection, not a draw.
C11_FirstPickIsHeadOfTier ==
    (pc = "send" /\ ~AnyAttempts(strategy_attempts))
        => /\ variant = "enhanced" => strategy = EFFECTIVE_STRATEGIES[1]
           /\ variant = "ultimate" => strategy = ULTIMATE_STRATEGIES[1]

\* C11 witness: the first attempt ever of an Enhanced handler is about to be
\* sent, in its second call (the first call had max_retries = 0).
C11_Witness ==
    /\ variant = "enhanced"
    /\ pc = "send"
    /\ request_count = 2
    /\ total_calls = 0
    /\ ~AnyAttempts(strategy_attempts)
    /\ strategy = EFFECTIVE_STRATEGIES[1]

\* the preferred tier of the running handler
PreferredTier ==
    IF variant = "ultimate" THEN ULTIMATE_STRATEGIES ELSE EFFECTIVE_STRATEGIES

\* C12 as stated: while no strategy has an attempt on record, the i-th
\* selection the handler makes (i = 0, 1, 2, ...) returns entry
\* i mod len of the preferred tier.
C12_RoundRobin ==
    [][\A i \in Threads :
          (/\ th[i].pc = "for"
           /\ th'[i].pc = "send"
           /\ ~AnyAttempts(strategy_attempts))
             => th'[i].strategy =
                   PreferredTier[(calls_made % Len(PreferredTier)) + 1]]_vars

\* C13 as stated: in UltimateDeltaHandler, with an attempt on record and
\* consecutive_failures > 2, the selected strategy has the least attempts of
\* the catalog.
C13_UltimateExploreLeastAttempted ==
    (/\ variant = "ultimate"
     /\ pc = "send"
     /\ AnyAttempts(strategy_attempts)
     /\ consecutive_failures > 2)
        => \A t \in Range(ULTIMATE_ALL_STRATEGIES) :
              strategy_attempts[strategy] <= strategy_attempts[t]

\* C14 as stated: in EnhancedDeltaHandler the strategy selected for an
\* attempt that follows a non-Success attempt of the same call differs
\* from the strategy that attempt used.
C14_RetryWithDifferentStrategy ==
    [][(/\ variant = "enhanced"
        /\ pc = "for"
        /\ pc' = "send"
        /\ attempt >= 1
        /\ outcome \in NonSuccess)
          => strategy' # strategy]_vars

\* the cap of the running handler's delay computation
CapOf(v) ==
    CASE v = "enhanced" -> EnhancedCap
      [] v = "ultimate" -> UltimateCap
      [] OTHER          -> PerfectCap

\* the sum of the terms of the running handler's delay, before the cap
UncappedDelay ==
    CASE variant = "enhanced" ->
            3000 + Uniform(2000, rnd[1])
              + strategy_delay(strategy_attempts, strategy_success_rates,
                               strategy, 5000)
              + attempt_delay(attempt) + failure_delay(consecutive_failures)
      [] variant = "ultimate" ->
            5000 + Uniform(3000, rnd[1]) + Uniform(5000, rnd[2])
              + strategy_delay(strategy_attempts, strategy_success_rates,
                               strategy, 10000)
              + ultimate_attempt_delay(attempt)
              + ultimate_failure_delay(consecutive_failures)
      [] OTHER ->
            1000 + Uniform(2000, rnd[1]) + Uniform(1000, rnd[2])
              + perfect_failure_delay(consecutive_failures)

C16_RateAtLeast(n2, k2, n1, k1) ==
    (IF n2 > 0 THEN k2 ELSE 0) * (IF n1 > 0 THEN n1 ELSE 1)
        >= (IF n1 > 0 THEN k1 ELSE 0) * (IF n2 > 0 THEN n2 ELSE 1)

\* the Enhanced delay with the used strategy at n attempts and k successes
C16_DelayAt(n, k, cf, a) ==
    calculate_delay([strategy_attempts EXCEPT ![strategy] = n],
                    [strategy_success_rates EXCEPT ![strategy] = k],
                    cf, a, strategy, rnd)

\* C16: with the random term fixed, the delay of EnhancedDeltaHandler does
\* not decrease when the attempt number or consecutive_failures grows and
\* does not increase when the used strategy's success rate grows; the
\* attempt term is at most 10 s and the consecutive-failure term at most
\* 15 s.
C16_DelayMonotone ==
    (variant = "enhanced" /\ pc = "sleep") =>
        LET n == strategy_attempts[strategy]
            k == strategy_success_rates[strategy]
        IN  /\ delay = C16_DelayAt(n, k, consecutive_failures, attempt)
            /\ delay <= C16_DelayAt(n, k, consecutive_failures, attempt + 1)
            /\ delay <= C16_DelayAt(n, k, consecutive_failures + 1, attempt)
            /\ \A n2 \in 0..MaxDelayStat : \A k2 \in 0..n2 :
                  C16_RateAtLeast(n2, k2, n, k)
                      => C16_DelayAt(n2, k2, consecutive_failures, attempt)
                            <= delay
            /\ attempt_delay(attempt) <= 10000
            /\ failure_delay(consecutive_failures) <= 15000

\* C16 witness: an Enhanced delay below the cap, computed for a strategy
\* with successes, that grows with the attempt number and with
\* consecutive_failures and is below the delay of a strategy without
\* successes.
C16_Witness ==
    /\ variant = "enhanced"
    /\ pc = "sleep"
    /\ strategy_success_rates[strategy] > 0
    /\ delay < 30000
    /\ delay < C16_DelayAt(strategy_attempts[strategy],
                           strategy_success_rates[strategy],
                           consecutive_failures, attempt + 1)
    /\ delay < C16_DelayAt(strategy_attempts[strategy],
                           strategy_success_rates[strategy],
                           consecutive_failures + 1, attempt)
    /\ delay < C16_DelayAt(strategy_attempts[strategy], 0,
                           consecutive_failures, attempt)

\* C17: a failure result returned after max_retries attempts names the
\* strategy the last attempt used, carries attempt = the number of attempts
\* made, and its error text (with the status code, for an outcome that has
\* one) is that of the last attempt's classification.
C17_FailureCarriesLastAttempt ==
    (/\ pc = "returned"
     /\ ~result.success
     /\ max_retries >= 1
     /\ calls_made = max_retries)
        => /\ outcome \in NonSuccess
           /\ result.strategy = snap.strategy
           /\ result.attempt = calls_made
           /\ outcome = "Challenged"
                 => /\ result.error = "Challenge not resolved after max retries"
                    /\ result.status_code = 429
           /\ outcome = "AccessDenied"
                 => /\ result.error = IF variant = "service" THEN "HTTP"
                                      ELSE "Access denied after max retries"
                    /\ result.status_code = 444
           /\ outcome = "OtherHttpError"
                 => /\ result.error = "HTTP"
                    /\ result.status_code = response.status_code
                    /\ result.status_code \notin {NoStatus, 200, 444}
           /\ outcome = "TransportError"
                 => /\ result.error \in TransportErrors \cup {JsonError}
                    /\ result.error = exc
                    /\ result.status_code = NoStatus

\* C17 witness: an Ultimate call with max_retries = 2 has returned after
\* an OtherHttpError and an AccessDenied attempt.
C17_Witness ==
    /\ variant = "ultimate"
    /\ pc = "returned"
    /\ max_retries = 2
    /\ calls_made = 2
    /\ outcome = "AccessDenied"
    /\ consecutive_failures = 2
    /\ access_denied_count = 1
    /\ result = [success |-> FALSE,
                 error |-> "Access denied after max retries",
                 strategy |-> snap.strategy, attempt |-> 2,
                 status_code |-> 444]

\* C18 as stated: make_delta_request never raises, and what it returns is a
\* success result or a failure result with an error, the strategy and the
\* attempt count, for every max_retries including 0.
C18_NeverRaises ==
    /\ pc # "raised"
    /\ pc = "returned"
          => /\ result.strategy \in Range(Catalog(variant))
             /\ result.attempt \in 0..max_retries
             /\ result.success \/ result.error # None

\* C19: an attempt that gets status 200 with a body that decodes returns
\* in its next step a success result with the attempt's number and the
\* strategy it used, without another upstream call; after a return the
\* only step is the entry of a new call, so no sleep and no upstream call
\* follow within the call.
C19_SuccessIsTerminal ==
    [][/\ (pc = "build" /\ response.body.json # "invalid")
            => /\ pc' = "returned"
               /\ result' = [success |-> TRUE, error |-> None,
                             strategy |-> snap.strategy, attempt |-> attempt,
                             status_code |-> 200]
               /\ attempt = calls_made
               /\ calls_made' = calls_made
       /\ pc = "returned"
            => /\ pc' = "for"
               /\ request_count' = request_count + 1
               /\ calls_made' = 0
               /\ total_calls' = total_calls]_vars

\* C19 witness: a call with max_retries = 3 has returned a success result
\* on its second attempt.
C19_Witness ==
    /\ pc = "returned"
    /\ result.success
    /\ result.attempt = 2
    /\ max_retries = 3
    /\ calls_made = 2
    /\ result.strategy = snap.strategy

\* the minimum interval of the running handler, in milliseconds
C20_Interval ==
    CASE variant = "enhanced" -> 3000
      [] variant = "ultimate" -> 5000
      [] OTHER                -> 2000

\* C20: in sequential use the first attempt of a call is issued at least
\* the minimum interval (Enhanced 3 s, Ultimate 5 s, Perfect and Service
\* 2 s) after last_request_time; a call entered earlier sleeps for the
\* remaining time, no more and no less, and a call entered later does not
\* sleep.
C20_MinimumSpacing ==
    [][/\ (pc' = "send" /\ attempt' = 1)
            => now' >= last_request_time' + C20_Interval
       /\ (pc = "idle" /\ pc' # "idle"
              /\ now - last_request_time < C20_Interval)
            => /\ pc' = "wait"
               /\ delay' = C20_Interval - (now - last_request_time)
               /\ now' = now
       /\ (pc = "idle" /\ pc' # "idle"
              /\ now - last_request_time >= C20_Interval)
            => pc' = "for" /\ now' = now
       /\ pc = "wait"
            => /\ now' = last_request_time + C20_Interval
               /\ pc' = "for"
               /\ last_request_time' = last_request_time]_vars

\* C20 witness: the second call of an Enhanced handler was entered 1 s
\* after the last response and is sleeping for the remaining 2 s.
C20_Witness ==
    /\ variant = "enhanced"
    /\ request_count = 1
    /\ pc = "wait"
    /\ now - last_request_time = 1000
    /\ delay = 2000

\* C21: with calls running concurrently on the shared handler, the first
\* attempts of two distinct calls are never issued less than the minimum
\* interval apart.
C21_GlobalThrottle ==
    \A i, j \in Threads :
        (i # j /\ th[i].issued /\ th[j].issued /\ th[i].first >= th[j].first)
            => th[i].first - th[j].first >= C20_Interval

\* an update has been lost: a counter is smaller than the number of
\* increments made on it
C22_LostUpdate ==
    \/ \E s \in DOMAIN strategy_attempts :
          strategy_attempts[s] < recorded.attempts[s]
    \/ consecutive_failures < recorded.failures

\* C22: when update_strategy_stats runs as one step no update is lost,
\* whatever the interleaving of the concurrent calls: strategy_attempts[s]
\* is never smaller than the number of outcomes recorded for s, and
\* consecutive_failures never smaller than the number of failures recorded
\* since the last success.  (Without that, C22_Witness is reachable.)
C22_SerializedLosesNothing == serialized => ~C22_LostUpdate

\* C22 witness: the updates are not serialized, as in the source; two
\* calls have recorded an outcome for the same strategy and
\* strategy_attempts holds one of the two.
C22_Witness ==
    /\ ~serialized
    /\ \E s \in DOMAIN strategy_attempts :
          /\ recorded.attempts[s] = 2
          /\ strategy_attempts[s] = 1

C24_Restored ==
    /\ twin.restored
    /\ twin.pc = "send"
    /\ twin.attempts = strategy_attempts
    /\ twin.successes = strategy_success_rates

\* what the first controller selects in its present state
C24_OriginalChoice ==
    select_strategy(strategy_attempts, strategy_success_rates,
                    consecutive_failures, current_strategy_index)

C25_ZeroAttemptsRateZero ==
    /\ 0 \notin health_divisors
    /\ reply.kind # "server_error"
    /\ \A s \in DOMAIN strategy_attempts :
          /\ RateDen(strategy_attempts, strategy_success_rates, s) > 0
          /\ strategy_attempts[s] = 0 =>
                /\ RateNum(strategy_attempts, strategy_success_rates, s) = 0
                /\ strategy_delay(strategy_attempts, strategy_success_rates,
                                  s, 5000) = 5000
                /\ strategy_delay(strategy_attempts, strategy_success_rates,
                                  s, 10000) = 10000
                /\ Percent(strategy_success_rates[s],
                           RateDivisor(strategy_attempts[s])) = 0
                /\ reply.kind = "health" =>
                      s \notin DOMAIN reply.strategy_performance

\* C25 witness: /health has answered while one strategy has been attempted
\* and another has not.
C25_Witness ==
    /\ reply.kind = "health"
    /\ request_count >= 1
    /\ \E s \in DOMAIN strategy_attempts : strategy_attempts[s] = 0
    /\ \E s \in DOMAIN reply.strategy_performance :
          reply.strategy_performance[s].attempts = strategy_attempts[s]

\* C26: POST /delta answers a successful make_delta_request with the
\* upstream data (status 200) and a failed one with an error object whose
\* debug part names the strategy and the number of the last attempt and
\* holds the statistics snapshot, and whose HTTP status is the status code
\* of the last upstream response, or 500 when the last attempt ended in an
\* exception (no status code in the result).
C26_EndpointAnswer ==
    (pc = "idle" /\ reply.kind \in {"data", "error", "server_error"}) =>
        IF outcome = "Success"
        THEN reply.kind = "data" /\ reply.status = 200 /\ result.success
        ELSE /\ reply.kind = "error"
             /\ ~result.success
             /\ reply.debug.strategy = strategy
             /\ reply.debug.attempt = attempt
             /\ attempt = max_retries
             /\ reply.debug.handler_stats.total_requests = request_count
             /\ reply.debug.handler_stats.success_count = success_count
             /\ reply.debug.handler_stats.challenge_count = challenge_count
             /\ reply.debug.handler_stats.access_denied_count
                    = access_denied_count
             /\ reply.status = IF outcome = "TransportError"
                               THEN 500 ELSE response.status_code

\* C26 witness: the budget of two attempts was used up, the last upstream
\* response was a 429 challenge, and POST /delta answered with status 429.
C26_Witness ==
    /\ pc = "idle"
    /\ reply.kind = "error"
    /\ reply.status = 429
    /\ outcome = "Challenged"
    /\ reply.debug.attempt = 2

\* the keys of the two dictionaries are the catalog of the handler and the
\* selected strategy is one of the catalog
C27_KeysAreCatalog ==
    /\ variant \in StatVariants =>
          /\ DOMAIN strategy_attempts = Range(Catalog(variant))
          /\ DOMAIN strategy_success_rates = Range(Catalog(variant))
    /\ strategy # Unbound => strategy \in Range(Catalog(variant))

\* a step that changes a per-strategy counter is one recording: the
\* attempts of the used strategy grow by 1, its successes by 1 or not at
\* all, and no other entry changes
C27_OnlyRecordingChanges ==
    (strategy_attempts' # strategy_attempts
        \/ strategy_success_rates' # strategy_success_rates)
    => /\ strategy \in DOMAIN strategy_attempts
       /\ strategy_attempts' =
              [strategy_attempts EXCEPT ![strategy] = @ + 1]
       /\ \/ strategy_success_rates' = strategy_success_rates
          \/ strategy_success_rates' =
                 [strategy_success_rates EXCEPT ![strategy] = @ + 1]

\* C27: the catalog is fixed for the life of the controller: after any
\* sequence of make_delta_request calls the keys of strategy_attempts and
\* strategy_success_rates are the catalog of construction, the counters
\* change only by a recording of update_strategy_stats, and every selected
\* strategy is in the catalog.
C27_CatalogFixed ==
    [][C27_KeysAreCatalog /\ C27_KeysAreCatalog' /\ C27_OnlyRecordingChanges]_vars

\* C27 witness: a second call is running, outcomes have been recorded on
\* two strategies, and the keys are still the catalog.
C27_Witness ==
    /\ variant = "enhanced"
    /\ request_count = 2
    /\ pc = "send"
    /\ Cardinality({s \in DOMAIN strategy_attempts :
                        strategy_attempts[s] > 0}) >= 2
    /\ DOMAIN strategy_attempts = Range(ALL_STRATEGIES)

\* a call is running: it has been entered and has neither returned nor
\* raised
C28_Running == pc \notin {"idle", "returned", "raised"}

\* C28: every make_delta_request call terminates: when every upstream call
\* comes back and every sleep ends, a running call eventually returns a
\* result, a success or a failure, having made at most max_retries
\* attempts.
C28_Terminates ==
    C28_Running ~> (/\ pc = "returned"
                    /\ result # NoResult
                    /\ calls_made <= max_retries)

\* a running call eventually stops, by a return or by an exception, with
\* at most max_retries upstream calls made
C28_Stops ==
    C28_Running ~> (pc \in {"returned", "raised"} /\ calls_made <= max_retries)

\* a running call whose loop has at least one iteration returns a result
C28_ReturnsWhenLoopRuns ==
    (C28_Running /\ max_retries >= 1)
        ~> (pc = "returned" /\ result # NoResult /\ calls_made <= max_retries)

\* success_rates[a] > success_rates[b], the rate of a strategy without
\* attempts being 0.0
C29_RateAbove(a, b) ==
    LET na == IF strategy_attempts[a] > 0 THEN strategy_success_rates[a] ELSE 0
        da == IF strategy_attempts[a] > 0 THEN strategy_attempts[a] ELSE 1
        nb == IF strategy_attempts[b] > 0 THEN strategy_success_rates[b] ELSE 0
        db == IF strategy_attempts[b] > 0 THEN strategy_attempts[b] ELSE 1
    IN  na * db > nb * da

\* no ULTIMATE-tier strategy has a greater key (success_rate, attempts)
\* than u, and the rate of u is above one half
C29_GoodBestUltimate(u) ==
    /\ u \in Range(ULTIMATE_STRATEGIES)
    /\ strategy_attempts[u] > 0
    /\ 2 * strategy_success_rates[u] > strategy_attempts[u]
    /\ \A v \in Range(ULTIMATE_STRATEGIES) :
          /\ ~C29_RateAbove(v, u)
          /\ C29_RateAbove(u, v)
                \/ strategy_attempts[v] <= strategy_attempts[u]

\* C29: in get_ultimate_strategy, once an attempt has been recorded, when
\* the best ULTIMATE-tier strategy by (success_rate, attempts) has a rate
\* above 0.5 that strategy is returned, whatever consecutive_failures is
\* and whatever the rates of the backup strategies are.
C29_GoodUltimateSelected ==
    (pc = "send" /\ \E u \in Range(ULTIMATE_STRATEGIES) : C29_GoodBestUltimate(u))
        => C29_GoodBestUltimate(strategy)

\* C29 witness: an ultimate strategy with a rate above 0.5 has been
\* selected with more than two failures in a row recorded and a backup
\* strategy at a higher rate.
C29_Witness ==
    /\ pc = "send"
    /\ consecutive_failures > 2
    /\ C29_GoodBestUltimate(strategy)
    /\ \E b \in Range(BACKUP_STRATEGIES) : C29_RateAbove(b, strategy)

\* C30: in EnhancedDeltaHandler under sequential use success_count never
\* exceeds request_count (one more request and at most one more success
\* per make_delta_request call), so the success_rate percentage that
\* /health reports is at most 100.
C30_SuccessesWithinRequests ==
    variant = "enhanced" =>
        /\ success_count <= request_count
        /\ reply.kind = "health" => reply.handler_stats.success_rate <= 100

\* request_count grows by exactly 1 at the entry of a call and nowhere
\* else
C30_OneRequestPerCall ==
    [][request_count' # request_count
           => pc = "idle" /\ pc' = "for" /\ request_count' = request_count + 1]_vars

\* the number of attempts after which the catalog is said to be covered
C31_CoverAfter == 4 + (Len(ALL_STRATEGIES) - 1)

\* C31: on a fresh EnhancedDeltaHandler whose upstream fails every attempt,
\* every strategy of ALL_STRATEGIES has been attempted at least once when
\* 4 + (|ALL_STRATEGIES| - 1) attempts have been recorded.
C31_CatalogCovered ==
    (pc = "for" /\ total_calls >= C31_CoverAfter)
        => \A s \in Range(ALL_STRATEGIES) : strategy_attempts[s] >= 1

\* the same when no failed attempt was a status 200 with a body that does
\* not decode (no success has been recorded)
C31_CoveredWithoutDecodeFailures ==
    (/\ pc = "for"
     /\ total_calls >= C31_CoverAfter
     /\ \A s \in Range(ALL_STRATEGIES) : strategy_success_rates[s] = 0)
        => \A s \in Range(ALL_STRATEGIES) : strategy_attempts[s] >= 1

\* plain failures only: 11 attempts recorded, the catalog covered
C31_PlainFailuresCover ==
    /\ pc = "for"
    /\ total_calls = C31_CoverAfter
    /\ \A s \in Range(ALL_STRATEGIES) : strategy_success_rates[s] = 0
    /\ \A s \in Range(ALL_STRATEGIES) : strategy_attempts[s] >= 1

\* the catalog entry after s, the first one after the last
C32_NextEntry(s) ==
    LET i == CHOOSE k \in 1..Len(BROWSER_STRATEGIES) : BROWSER_STRATEGIES[k] = s
    IN  IF i = Len(BROWSER_STRATEGIES)
        THEN BROWSER_STRATEGIES[1] ELSE BROWSER_STRATEGIES[i + 1]

\* the index moves one position on, from the last one to 0
C32_IndexAdvances ==
    current_strategy' =
        IF current_strategy = Len(BROWSER_STRATEGIES) - 1
        THEN 0 ELSE current_strategy + 1

\* the steps at which the strategy is switched: the entry of a call and a
\* Challenged response on an attempt that is not the last
C32_Switches ==
    \/ pc \in {"idle", "returned", "raised"} /\ pc' = "for"
    \/ pc = "respond" /\ outcome' = "Challenged" /\ attempt < max_retries

\* C32: in DeltaChallengeHandler get_next_strategy walks BROWSER_STRATEGIES
\* in catalog order and wraps around, current_strategy stays in
\* 0..len(BROWSER_STRATEGIES)-1, the strategy moves to the next catalog
\* entry at the entry of a call and after a Challenged response on a
\* non-final attempt, and it is unchanged after a transport exception (and
\* by every other step).
C32_Rotation ==
    [][variant = "service" =>
          /\ current_strategy \in 0..(Len(BROWSER_STRATEGIES) - 1)
          /\ current_strategy' \in 0..(Len(BROWSER_STRATEGIES) - 1)
          /\ IF C32_Switches
             THEN /\ C32_IndexAdvances
                  /\ strategy' = BROWSER_STRATEGIES[current_strategy + 1]
                  /\ strategy # Unbound => strategy' = C32_NextEntry(strategy)
             ELSE /\ strategy' = strategy
                  /\ current_strategy' = current_strategy]_vars

\* C32 witness: the attempt made with the last catalog entry was
\* Challenged, on the second or a later attempt of the call, and the
\* retry has been given the first entry.
C32_Witness ==
    /\ variant = "service"
    /\ pc = "sleep"
    /\ outcome = "Challenged"
    /\ snap.strategy = BROWSER_STRATEGIES[Len(BROWSER_STRATEGIES)]
    /\ strategy = BROWSER_STRATEGIES[1]
    /\ current_strategy = 1
    /\ attempt >= 2

\* C33: under every interleaving of the page workers that call the
\* unsynchronized _get_next_token, with a token list that is not empty
\* current_token_index stays in 0..len(available_tokens)-1 and every token
\* returned is an element of available_tokens; with an empty list None is
\* returned and the index is left as it was.
C33_TokenRotation ==
    LET tokens == airport_api.available_tokens
        returned == {airport_api.workers[w].token :
                        w \in {x \in Workers : airport_api.workers[x].pc = "get"}}
    IN  IF tokens # <<>>
        THEN /\ airport_api.current_token_index \in 0..(Len(tokens) - 1)
             /\ returned \subseteq {tokens[i] : i \in 1..Len(tokens)}
        ELSE /\ airport_api.current_token_index = 0
             /\ returned \subseteq {None}

\* C33 witness: the workers were inside _get_next_token at the same time;
\* each was given the second token and the index has advanced once.
C33_Witness ==
    /\ Len(airport_api.available_tokens) >= 3
    /\ \A w \in Workers :
          /\ airport_api.workers[w].pc = "get"
          /\ airport_api.workers[w].token = airport_api.available_tokens[2]
    /\ airport_api.current_token_index = 2

\* C34: get_flights always leaves its while loop, whatever the upstream
\* answers: a 402 is retried at the same timestamp at most 3 times between
\* successful responses, every other iteration that goes on moves the
\* timestamp earlier, and so a stop condition is reached.
C34_LeavesLoop == <>(flights_api.pc = "done")

\* an iteration that goes on without moving the timestamp earlier is a
\* retry of a 402, the retry_count-th of at most 3
C34_GoesOnEarlier ==
    [][(flights_api.pc = "request" /\ flights_api'.pc = "while"
            /\ flights_api'.days_ago <= flights_api.days_ago)
       => /\ flights_api'.days_ago = flights_api.days_ago
          /\ flights_api'.retry_count = flights_api.retry_count + 1
          /\ flights_api'.retry_count <= MaxRetries402]_vars

\* the retries of a 402: the timestamp is kept only by a step that counts
\* one more retry, and retry_count stays within max_retries
C34_Retries402 ==
    [][/\ flights_api'.retry_count <= MaxRetries402
       /\ flights_api'.retry_count > flights_api.retry_count
             => /\ flights_api'.retry_count = flights_api.retry_count + 1
                /\ flights_api'.days_ago = flights_api.days_ago]_vars

\* a page with a new flight has left the timestamp where it was or moved
\* it later
C34_PageNotEarlier ==
    /\ flights_api.pc = "request"
    /\ flights_api'.pc = "while"
    /\ flights_api'.retry_count = 0
    /\ flights_api'.days_ago <= flights_api.days_ago

\* the loop is left unless such pages keep coming
C34_LeavesLoopOtherwise ==
    <>(flights_api.pc = "done") \/ []<><<C34_PageNotEarlier>>_vars

\* C35: in run_scraper the truncation of the cx table is attempted before any
\* availability query or insert; when truncate_cx_table returns False the run
\* ends with no query and no insert; and the inserts begin only after every
\* availability query has completed.
C35_QueriesStarted ==
    {f \in 1..Len(cx_scraper.futures) :
        cx_scraper.futures[f].state # "submitted"}

C35_QueriesCompleted ==
    \A f \in 1..Len(cx_scraper.futures) :
        cx_scraper.futures[f].state \in {"finished", "collected"}

C35_TruncateFirst ==
    /\ (C35_QueriesStarted # {} \/ cx_scraper.inserts > 0)
           => cx_scraper.deletes > 0
    /\ cx_scraper.truncated = "no"
           => /\ cx_scraper.pc = "done"
              /\ cx_scraper.futures = <<>>
              /\ cx_scraper.inserts = 0
    /\ (cx_scraper.pc = "upload" \/ cx_scraper.inserts > 0)
           => /\ cx_scraper.futures # <<>>
              /\ C35_QueriesCompleted

\* a run whose queries answered in two rounds of the pool and whose records
\* went up in more than one batch
C35_Witness ==
    /\ cx_scraper.pc = "done"
    /\ cx_scraper.truncated = "yes"
    /\ Len(cx_scraper.futures) > MaxPoolWorkers
    /\ cx_scraper.inserts >= 2
    /\ C35_QueriesCompleted

\* a run aborted by the failed truncation
C35_Aborted ==
    /\ cx_scraper.truncated = "no"
    /\ cx_scraper.pc = "done"

\* C36: in persistent mode the frames are written in the order of the input
\* lines and each line yields at most one frame: exactly one for a non-blank
\* line that parses to a request with a url (its result) or that raises while
\* it is processed (an error frame with status 500), none for a blank line or
\* for a parsed request without a url.
C36_Handled ==
    IF persistent_browser.pc = "line"
    THEN persistent_browser.line - 1 ELSE persistent_browser.line

C36_FramesOf(n) ==
    {k \in 1..Len(persistent_browser.stdout) :
        persistent_browser.stdout[k].line = n}

C36_Parsed(n) == json_loads(strip(persistent_browser.stdin[n]))

C36_OneFramePerRequest ==
    /\ \A k \in 1..Len(persistent_browser.stdout) - 1 :
          persistent_browser.stdout[k].line
              < persistent_browser.stdout[k + 1].line
    /\ \A k \in 1..Len(persistent_browser.stdout) :
          persistent_browser.stdout[k].line \in 1..persistent_browser.line
    /\ \A n \in 1..C36_Handled :
          LET line == persistent_browser.stdin[n]
              request == C36_Parsed(n)
              frames == C36_FramesOf(n)
          IN  IF line \in {"", "  "}
              THEN frames = {}
              ELSE IF request.type # "dict"
              THEN /\ Cardinality(frames) = 1
                   /\ \A k \in frames :
                         /\ persistent_browser.stdout[k].error
                         /\ persistent_browser.stdout[k].status = 500
              ELSE IF request.url \in {"a", "b"}
              THEN /\ Cardinality(frames) = 1
                   /\ \A k \in frames : ~persistent_browser.stdout[k].error
              ELSE frames = {}

\* an input with a blank line, a line that raises and a request, in that
\* order, read to its end: two frames, the error frame first
C36_Witness ==
    /\ persistent_browser.pc = "done"
    /\ Len(persistent_browser.stdin) = 3
    /\ persistent_browser.stdin[1] = "  "
    /\ persistent_browser.stdin[2] \in {"{oops", "[1]"}
    /\ persistent_browser.stdin[3] = " {url:'b'} "
    /\ Len(persistent_browser.stdout) = 2
    /\ persistent_browser.stdout[1] = Frame(2, 500, TRUE)
    /\ persistent_browser.stdout[2].line = 3

====
